---- MODULE Spec2Model ----
(***************************************************************************)
(* Model of the architecture-code engine of zen_nas: the SuperVoVK*        *)
(* composite blocks (decode, canonical string, split, structure_scale)     *)
(* and the ghost-shuffle search-space generator; and of the checkpoint     *)
(* handling of train_image_classification (save_checkpoint, best-accuracy  *)
(* tracking, auto-resume and the done marker).                             *)
(*                                                                         *)
(* Text is modelled as a sequence of one-character strings, so that        *)
(* formatting and parsing are real conversions.  Python indices are        *)
(* 0-based; the helpers below take and return 0-based indices.             *)
(***************************************************************************)
EXTENDS Integers, Sequences, FiniteSets, TLC

(***************************************************************************)
(* Bounds of the model.                                                    *)
(***************************************************************************)
\* channel widths of the input literals are 8*k, k in 1..MaxChanMult
MaxChanMult == 2
\* sub_layers of the input literals range over 1..MaxSubLayers
MaxSubLayers == 3
\* split thresholds range over 0..MaxThreshold
MaxThreshold == 4

\* largest channel count handed to get_select_student_channels_list on its own
MaxSelectChannels == 48

\* largest |sub_layers| handed to get_select_student_sublayers_list on its own
MaxSelectSubLayers == 6

\* rounds of repeated split
MaxRounds == 4

\* opt.epochs of a training job
MaxEpochs == 2
\* validation accuracies range over 0..MaxAcc
MaxAcc == 1
\* starts of main on one save directory
MaxRuns == 2

(***************************************************************************)
(* Python built-ins on text and numbers.                                   *)
(***************************************************************************)
Max(a, b) == IF a >= b THEN a ELSE b

DigitChars == <<"0", "1", "2", "3", "4", "5", "6", "7", "8", "9">>

IsDigit(c) == \E i \in 1..10 : DigitChars[i] = c

DigitVal(c) == (CHOOSE i \in 1..10 : DigitChars[i] = c) - 1

RECURSIVE NatToStr(_)
NatToStr(n) ==
    IF n < 10 THEN <<DigitChars[n + 1]>>
    ELSE NatToStr(n \div 10) \o <<DigitChars[(n % 10) + 1]>>

\* str(n) / f'{n}' of a Python int
IntToStr(n) == IF n < 0 THEN <<"-">> \o NatToStr(-n) ELSE NatToStr(n)

RECURSIVE DigitsToNat(_)
DigitsToNat(s) ==
    IF s = <<>> THEN 0
    ELSE 10 * DigitsToNat(SubSeq(s, 1, Len(s) - 1)) + DigitVal(s[Len(s)])

RECURSIVE Strip(_)
Strip(s) ==
    IF s = <<>> THEN s
    ELSE IF s[1] = " " THEN Strip(Tail(s))
    ELSE IF s[Len(s)] = " " THEN Strip(SubSeq(s, 1, Len(s) - 1))
    ELSE s

\* int(text): surrounding blanks and one sign are accepted, then decimal
\* digits; anything else raises ValueError (ok = FALSE)
ParseInt(text) ==
    LET t == Strip(text)
        signed == t # <<>> /\ t[1] \in {"-", "+"}
        d == IF signed THEN Tail(t) ELSE t
        good == d # <<>> /\ \A i \in 1..Len(d) : IsDigit(d[i])
    IN  [ok |-> good,
         val |-> IF ~good THEN 0
                 ELSE IF signed /\ t[1] = "-" THEN -DigitsToNat(d)
                 ELSE DigitsToNat(d)]

\* s[a:b] for 0 <= a, 0 <= b
Slice(s, a, b) == SubSeq(s, a + 1, IF b > Len(s) THEN Len(s) ELSE b)

\* s[a:]
SliceFrom(s, a) == SubSeq(s, a + 1, Len(s))

\* s.find(c): 0-based index of the first c, -1 when there is none
Find(s, c) ==
    IF \E i \in 1..Len(s) : s[i] = c
    THEN (CHOOSE i \in 1..Len(s) : s[i] = c /\ \A j \in 1..(i - 1) : s[j] # c) - 1
    ELSE -1

\* s.startswith(p)
StartsWith(s, p) == Len(s) >= Len(p) /\ SubSeq(s, 1, Len(p)) = p

\* s.split(c): always at least one field
RECURSIVE StrSplit(_, _)
StrSplit(s, c) ==
    LET i == Find(s, c)
    IN  IF i < 0 THEN <<s>>
        ELSE <<Slice(s, 0, i)>> \o StrSplit(SliceFrom(s, i + 1), c)

\* round(p / q) for q > 0: Python rounds halves to the even neighbour
Round(p, q) ==
    LET f == p \div q
        r == p % q
    IN  IF 2 * r < q THEN f
        ELSE IF 2 * r > q THEN f + 1
        ELSE IF f % 2 = 0 THEN f ELSE f + 1

(***************************************************************************)
(* Block type names and the registry.                                      *)
(***************************************************************************)
SuperVoVKName(k, l) ==
    <<"S", "u", "p", "e", "r", "V", "o", "V", "K">> \o NatToStr(k) \o <<"L">> \o NatToStr(l)

\* the classes SuperVoVK{3,5,7}L{1..5}: kernel_size is fixed by the K?LX
\* base class and osa_layers by the leaf class
register_netblocks_dict ==
    {[name |-> SuperVoVKName(k, l), kernel_size |-> k, osa_layers |-> l] :
        k \in {3, 5, 7}, l \in 1..5}

ConvKXName == <<"C", "o", "n", "v", "K", "X">>
BNName == <<"B", "N">>
RELUName == <<"R", "E", "L", "U">>
SEName == <<"S", "E">>
OSAResBlockName == <<"O", "S", "A", "R", "e", "s", "B", "l", "o", "c", "k">>
OSABlockName == <<"O", "S", "A", "B", "l", "o", "c", "k">>

RECURSIVE JoinInts(_)
JoinInts(args) ==
    IF args = <<>> THEN <<>>
    ELSE IF Len(args) = 1 THEN IntToStr(args[1])
    ELSE IntToStr(args[1]) \o <<",">> \o JoinInts(Tail(args))

\* f'Name({a},{b},...)'
Token(name, args) == name \o <<"(">> \o JoinInts(args) \o <<")">>

\* f'Name({inner_str})'
Wrap(name, inner_str) == name \o <<"(">> \o inner_str \o <<")">>

(***************************************************************************)
(* Token scanner and leaf decoders (PlainNet package).                     *)
(***************************************************************************)
\* the forward scan over s, told as a walk over the positions ps of its
\* parentheses (the other characters leave the depth alone): "(" raises the
\* depth, ")" lowers it and ends the scan when the depth is back at zero
RECURSIVE ScanParentheses(_, _, _, _)
ScanParentheses(s, ps, k, depth) ==
    IF k > Len(ps) THEN -1
    ELSE IF s[ps[k]] = "(" THEN ScanParentheses(s, ps, k + 1, depth + 1)
    ELSE IF depth - 1 = 0 THEN ps[k] - 1
    ELSE ScanParentheses(s, ps, k + 1, depth - 1)

\* index of the ")" that brings the nesting depth back to zero; -1 stands
\* for the failure with MalformedCodeError when the text ends before that
get_right_parentheses_index(s) ==
    ScanParentheses(s, SelectSeq([i \in 1..Len(s) |-> i], LAMBDA i : s[i] \in {"(", ")"}), 1, 0)

\* cls.is_instance_from_str(s): s begins with the type name followed by "("
is_instance_from_str(cls, s) == StartsWith(s, cls.name \o <<"(">>)

LeafTypeNames == {ConvKXName, BNName, RELUName, SEName}
WrapperTypeNames == {OSAResBlockName, OSABlockName}

\* all fields of a leaf parameter body as integers
LeafArgs(param_str) ==
    LET f == StrSplit(param_str, ",")
    IN  [ok |-> \A i \in 1..Len(f) : ParseInt(f[i]).ok,
         args |-> [i \in 1..Len(f) |-> ParseInt(f[i]).val]]

(***************************************************************************)
(* SuperVoVKXLX: construction, canonical string, decode.                   *)
(***************************************************************************)
RECURSIVE create_netblock_list_from_str(_, _, _)

\* the `for l in range(osa_layers)` loop of __init__, from repetition l on:
\* the text it appends to inner_str
RECURSIVE InitConvLoop(_, _, _, _)
InitConvLoop(self, l, temp_last_channels, current_stride) ==
    IF l >= self.osa_layers THEN <<>>
    ELSE Token(ConvKXName, <<temp_last_channels, self.bottleneck_channels,
                             self.kernel_size, current_stride>>)
         \o (IF ~self.no_BN THEN Token(BNName, <<self.bottleneck_channels>>) ELSE <<>>)
         \o (IF ~self.no_relu THEN Token(RELUName, <<self.bottleneck_channels>>) ELSE <<>>)
         \o InitConvLoop(self, l + 1, self.bottleneck_channels, 1)

\* a faulty variant of one pass of the stage loop: the SE token is never
\* appended and the stage is always wrapped as OSAResBlock
InitStage_always_res(self, last_channels, current_stride) ==
    LET convs == InitConvLoop(self, 0, last_channels, current_stride)
        next_in_chs == self.osa_layers * self.bottleneck_channels
        proj == IF ~self.no_reslink
                THEN Token(ConvKXName, <<next_in_chs, self.out_channels, 1, 1>>)
                ELSE Token(ConvKXName, <<self.bottleneck_channels, self.out_channels, 1, 1>>)
        inner_str == convs \o proj
            \o (IF ~self.no_BN THEN Token(BNName, <<self.out_channels>>) ELSE <<>>)
            \o (IF ~self.no_relu THEN Token(RELUName, <<self.out_channels>>) ELSE <<>>)
    IN  Wrap(OSAResBlockName, inner_str)

\* one pass of the `for i in range(self.sub_layers)` body: res_str
InitStage(self, last_channels, current_stride) ==
    LET convs == InitConvLoop(self, 0, last_channels, current_stride)
        next_in_chs == self.osa_layers * self.bottleneck_channels
        proj == IF ~self.no_reslink
                THEN Token(ConvKXName, <<next_in_chs, self.out_channels, 1, 1>>)
                ELSE Token(ConvKXName, <<self.bottleneck_channels, self.out_channels, 1, 1>>)
        inner_str == convs \o proj
            \o (IF ~self.no_BN THEN Token(BNName, <<self.out_channels>>) ELSE <<>>)
            \o (IF ~self.no_relu THEN Token(RELUName, <<self.out_channels>>) ELSE <<>>)
            \o (IF self.use_se THEN Token(SEName, <<self.out_channels>>) ELSE <<>>)
    IN  IF ~self.no_reslink THEN Wrap(OSAResBlockName, inner_str)
        ELSE Wrap(OSABlockName, inner_str)

\* a faulty variant of the outer loop: every stage starts again at the
\* stride it was handed
RECURSIVE InitStageLoop_stride_each_stage(_, _, _, _)
InitStageLoop_stride_each_stage(self, i, last_channels, current_stride) ==
    IF i >= self.sub_layers THEN <<>>
    ELSE InitStage(self, last_channels, current_stride)
         \o InitStageLoop_stride_each_stage(self, i + 1, self.out_channels, current_stride)

\* a faulty variant of the outer loop: last_channels is left at the value of
\* the first stage
RECURSIVE InitStageLoop_keep_last_channels(_, _, _, _)
InitStageLoop_keep_last_channels(self, i, last_channels, current_stride) ==
    IF i >= self.sub_layers THEN <<>>
    ELSE InitStage(self, last_channels, current_stride)
         \o InitStageLoop_keep_last_channels(self, i + 1, last_channels,
                IF self.osa_layers > 0 THEN 1 ELSE current_stride)

\* the outer loop of __init__ from stage i on: the text it appends to full_str;
\* current_stride is 1 once any kernel conv has been emitted
RECURSIVE InitStageLoop(_, _, _, _)
InitStageLoop(self, i, last_channels, current_stride) ==
    IF i >= self.sub_layers THEN <<>>
    ELSE InitStage(self, last_channels, current_stride)
         \o InitStageLoop(self, i + 1, self.out_channels,
                          IF self.osa_layers > 0 THEN 1 ELSE current_stride)

\* SuperVoVKXLX.__init__ through the subclass constructors: cls gives
\* kernel_size and osa_layers, kwargs the flags and the block name
SuperVoVKXLX_init(cls, in_channels, out_channels, stride, bottleneck_channels, sub_layers, kwargs, block_name) ==
    LET attrs == [cls |-> cls.name, block_name |-> block_name,
                  in_channels |-> in_channels, out_channels |-> out_channels,
                  stride |-> stride, bottleneck_channels |-> bottleneck_channels,
                  sub_layers |-> sub_layers, kernel_size |-> cls.kernel_size,
                  osa_layers |-> cls.osa_layers, no_reslink |-> kwargs.no_reslink,
                  no_BN |-> kwargs.no_BN, no_relu |-> kwargs.no_relu,
                  use_se |-> kwargs.use_se]
        full_str == InitStageLoop(attrs, 0, in_channels, stride)
        parsed == create_netblock_list_from_str(full_str, kwargs, 0)
    IN  [cls |-> attrs.cls, block_name |-> attrs.block_name,
         in_channels |-> attrs.in_channels, out_channels |-> attrs.out_channels,
         stride |-> attrs.stride, bottleneck_channels |-> attrs.bottleneck_channels,
         sub_layers |-> attrs.sub_layers, kernel_size |-> attrs.kernel_size,
         osa_layers |-> attrs.osa_layers, no_reslink |-> attrs.no_reslink,
         no_BN |-> attrs.no_BN, no_relu |-> attrs.no_relu, use_se |-> attrs.use_se,
         block_list |-> parsed.block_list]

\* a faulty variant of __str__: stride and bottleneck_channels change places
SuperVoVKXLX_str_swapped(self) ==
    Token(self.cls, <<self.in_channels, self.out_channels, self.bottleneck_channels,
                      self.stride, self.sub_layers>>)

\* type(self).__name__ + f'({in},{out},{stride},{bottleneck},{sub_layers})'
SuperVoVKXLX_str(self) ==
    Token(self.cls, <<self.in_channels, self.out_channels, self.stride,
                      self.bottleneck_channels, self.sub_layers>>)

\* f'uuid{uuid.uuid4().hex}': the n-th fresh name
UuidName(n) == <<"u", "u", "i", "d">> \o NatToStr(n)

NoBlock == [cls |-> <<>>]

\* the first failure among int(param_str_split[0]) .. int(param_str_split[4])
FieldError(param_str_split) ==
    LET bad(k) == Len(param_str_split) < k \/ ~ParseInt(param_str_split[k]).ok
    IN  IF \A k \in 1..5 : ~bad(k) THEN "none"
        ELSE LET k == CHOOSE j \in 1..5 : bad(j) /\ \A h \in 1..(j - 1) : ~bad(h)
             IN  IF Len(param_str_split) < k THEN "IndexError" ELSE "ValueError"

\* type(self).__name__ + f'({block_name}|in={in},out={out},stride={stride},
\* btl_channels={bottleneck},sub_layers={sub_layers},kernel_size={kernel_size})'
SuperVoVKXLX_repr(self) ==
    self.cls \o <<"(">> \o self.block_name
    \o <<"|", "i", "n", "=">> \o IntToStr(self.in_channels)
    \o <<",", "o", "u", "t", "=">> \o IntToStr(self.out_channels)
    \o <<",", "s", "t", "r", "i", "d", "e", "=">> \o IntToStr(self.stride)
    \o <<",", "b", "t", "l", "_", "c", "h", "a", "n", "n", "e", "l", "s", "=">>
    \o IntToStr(self.bottleneck_channels)
    \o <<",", "s", "u", "b", "_", "l", "a", "y", "e", "r", "s", "=">>
    \o IntToStr(self.sub_layers)
    \o <<",", "k", "e", "r", "n", "e", "l", "_", "s", "i", "z", "e", "=">>
    \o IntToStr(self.kernel_size) \o <<")">>

\* a faulty variant of create_from_str: the parameter body ends at the first
\* ")" of the text, or at its end when there is none
create_from_str_first_close(cls, struct_str, kwargs, uuid) ==
    LET idx == IF Find(struct_str, ")") < 0 THEN Len(struct_str) ELSE Find(struct_str, ")")
        body == Slice(struct_str, Len(cls.name) + 1, idx)
        tmp_idx == Find(body, "|")
        tmp_block_name == IF tmp_idx < 0 THEN uuid ELSE Slice(body, 0, tmp_idx)
        param_str == IF tmp_idx < 0 THEN body ELSE SliceFrom(body, tmp_idx + 1)
        param_str_split == StrSplit(param_str, ",")
        field(k) == ParseInt(param_str_split[k]).val
    IN  IF ~is_instance_from_str(cls, struct_str)
        THEN [err |-> "AssertionError", block |-> NoBlock, rest |-> <<>>]
        ELSE IF FieldError(param_str_split) # "none"
        THEN [err |-> FieldError(param_str_split), block |-> NoBlock, rest |-> <<>>]
        ELSE [err |-> "none",
              block |-> SuperVoVKXLX_init(cls, field(1), field(2), field(3), field(4),
                                          field(5), kwargs, tmp_block_name),
              rest |-> SliceFrom(struct_str, idx + 1)]

\* cls.create_from_str(struct_str, **kwargs); uuid is the fresh name drawn
\* when the literal carries none.  err names the exception raised, if any:
\* the scanner's MalformedCodeError when no ")" closes the token (the
\* `assert idx is not None` that follows the call is then never reached).
create_from_str(cls, struct_str, kwargs, uuid) ==
    LET idx == get_right_parentheses_index(struct_str)
        body == Slice(struct_str, Len(cls.name) + 1, idx)
        tmp_idx == Find(body, "|")
        tmp_block_name == IF tmp_idx < 0 THEN uuid ELSE Slice(body, 0, tmp_idx)
        param_str == IF tmp_idx < 0 THEN body ELSE SliceFrom(body, tmp_idx + 1)
        param_str_split == StrSplit(param_str, ",")
        field(k) == ParseInt(param_str_split[k]).val
    IN  IF ~is_instance_from_str(cls, struct_str)
        THEN [err |-> "AssertionError", block |-> NoBlock, rest |-> <<>>]
        ELSE IF idx < 0
        THEN [err |-> "MalformedCodeError", block |-> NoBlock, rest |-> <<>>]
        ELSE IF FieldError(param_str_split) # "none"
        THEN [err |-> FieldError(param_str_split), block |-> NoBlock, rest |-> <<>>]
        ELSE [err |-> "none",
              block |-> SuperVoVKXLX_init(cls, field(1), field(2), field(3), field(4),
                                          field(5), kwargs, tmp_block_name),
              rest |-> SliceFrom(struct_str, idx + 1)]

\* decode of a leaf or wrapper token at the head of s
LeafFromStr(name, s, kwargs) ==
    LET idx == get_right_parentheses_index(s)
        body == Slice(s, Len(name) + 1, idx)
        inner == IF name \in WrapperTypeNames
                 THEN create_netblock_list_from_str(body, kwargs, 0)
                 ELSE [err |-> "none", block_list |-> <<>>]
        args == IF name \in WrapperTypeNames THEN [ok |-> TRUE, args |-> <<>>]
                ELSE LeafArgs(body)
    IN  IF idx < 0 THEN [err |-> "MalformedCodeError", block |-> NoBlock, rest |-> <<>>]
        ELSE IF inner.err # "none" THEN [err |-> inner.err, block |-> NoBlock, rest |-> <<>>]
        ELSE IF ~args.ok THEN [err |-> "InvalidParameterError", block |-> NoBlock, rest |-> <<>>]
        ELSE [err |-> "none",
              block |-> [type |-> name, args |-> args.args, inner |-> inner.block_list],
              rest |-> SliceFrom(s, idx + 1)]

\* the parser: decode the token at the head of s with the one decoder that
\* matches it, append the block, go on with the remainder until it is empty.
\* Composite blocks without a name take the fresh names uuid_base + 1, ...
create_netblock_list_from_str(s, kwargs, uuid_base) ==
    IF s = <<>> THEN [err |-> "none", block_list |-> <<>>]
    ELSE
    LET composite == {c \in register_netblocks_dict : is_instance_from_str(c, s)}
        simple == {n \in LeafTypeNames \cup WrapperTypeNames : StartsWith(s, n \o <<"(">>)}
        got == IF composite # {}
               THEN create_from_str(CHOOSE c \in composite : TRUE, s, kwargs,
                                    UuidName(uuid_base + 1))
               ELSE LeafFromStr(CHOOSE n \in simple : TRUE, s, kwargs)
    IN  IF composite = {} /\ simple = {}
        THEN [err |-> "UnknownBlockTypeError", block_list |-> <<>>]
        ELSE IF got.err # "none" THEN [err |-> got.err, block_list |-> <<>>]
        ELSE LET more == create_netblock_list_from_str(got.rest, kwargs, uuid_base + 1)
             IN  IF more.err # "none" THEN more
                 ELSE [err |-> "none", block_list |-> <<got.block>> \o more.block_list]

(***************************************************************************)
(* Transform operations.  A method is modelled as a function from          *)
(* (self, arguments) to the object after the call and the value returned.  *)
(***************************************************************************)
\* a faulty variant of split: the second block keeps the parent's stride
split_keep_stride(self, split_layer_threshold) ==
    IF self.sub_layers >= split_layer_threshold
    THEN LET new_sublayers_1 == split_layer_threshold \div 2
             new_sublayers_2 == self.sub_layers - new_sublayers_1
         IN  [self |-> self,
              ret |-> Token(self.cls, <<self.in_channels, self.out_channels, self.stride,
                                        self.bottleneck_channels, new_sublayers_1>>)
                      \o Token(self.cls, <<self.out_channels, self.out_channels, self.stride,
                                           self.bottleneck_channels, new_sublayers_2>>)]
    ELSE [self |-> self, ret |-> Token(self.cls, <<self.in_channels, self.out_channels,
                  self.stride, self.bottleneck_channels, self.sub_layers>>)]

\* a faulty variant of split: the first block takes threshold sub-layers
\* instead of threshold // 2
split_no_halving(self, split_layer_threshold) ==
    IF self.sub_layers >= split_layer_threshold
    THEN LET new_sublayers_1 == split_layer_threshold
             new_sublayers_2 == self.sub_layers - new_sublayers_1
         IN  [self |-> self,
              ret |-> Token(self.cls, <<self.in_channels, self.out_channels, self.stride,
                                        self.bottleneck_channels, new_sublayers_1>>)
                      \o Token(self.cls, <<self.out_channels, self.out_channels, 1,
                                           self.bottleneck_channels, new_sublayers_2>>)]
    ELSE [self |-> self, ret |-> Token(self.cls, <<self.in_channels, self.out_channels,
                  self.stride, self.bottleneck_channels, self.sub_layers>>)]

\* a faulty variant of split: the node itself is cut down to the first part
split_in_place(self, split_layer_threshold) ==
    IF self.sub_layers >= split_layer_threshold
    THEN LET new_sublayers_1 == split_layer_threshold \div 2
             new_sublayers_2 == self.sub_layers - new_sublayers_1
         IN  [self |-> [self EXCEPT !.sub_layers = new_sublayers_1],
              ret |-> Token(self.cls, <<self.in_channels, self.out_channels, self.stride,
                                        self.bottleneck_channels, new_sublayers_1>>)
                      \o Token(self.cls, <<self.out_channels, self.out_channels, 1,
                                           self.bottleneck_channels, new_sublayers_2>>)]
    ELSE [self |-> self, ret |-> Token(self.cls, <<self.in_channels, self.out_channels,
                  self.stride, self.bottleneck_channels, self.sub_layers>>)]

\* SuperVoVKXLX.split(split_layer_threshold)
split(self, split_layer_threshold) ==
    IF self.sub_layers >= split_layer_threshold
    THEN LET new_sublayers_1 == split_layer_threshold \div 2
             new_sublayers_2 == self.sub_layers - new_sublayers_1
             new_block_str1 == Token(self.cls, <<self.in_channels, self.out_channels,
                                   self.stride, self.bottleneck_channels, new_sublayers_1>>)
             new_block_str2 == Token(self.cls, <<self.out_channels, self.out_channels,
                                   1, self.bottleneck_channels, new_sublayers_2>>)
         IN  [self |-> self, ret |-> new_block_str1 \o new_block_str2]
    ELSE [self |-> self, ret |-> SuperVoVKXLX_str(self)]

\* the rounding base smart_round takes when the caller passes none
DefaultRoundBase == 8

\* global_utils.smart_round(x, base) for the rational x = x[1] / x[2]: the
\* nearest multiple of base, never below base
smart_round(x, base) == Max(base, Round(x[1], x[2] * base) * base)

\* the value None of an optional scale factor
None == <<>>

\* a faulty variant of structure_scale: no floor of 1 under the sub-layers
structure_scale_no_floor(self, scale, channel_scale, sub_layer_scale) ==
    LET cs == IF channel_scale = None THEN scale ELSE channel_scale
        ss == IF sub_layer_scale = None THEN scale ELSE sub_layer_scale
    IN  [self |-> self,
         ret |-> Token(self.cls,
                   <<self.in_channels,
                     smart_round(<<self.out_channels * cs[1], cs[2]>>, DefaultRoundBase),
                     self.stride,
                     smart_round(<<self.bottleneck_channels * cs[1], cs[2]>>, DefaultRoundBase),
                     Round(self.sub_layers * ss[1], ss[2])>>)]

\* a faulty variant of structure_scale: the bottleneck width is computed from
\* out_channels
structure_scale_same_width(self, scale, channel_scale, sub_layer_scale) ==
    LET cs == IF channel_scale = None THEN scale ELSE channel_scale
        ss == IF sub_layer_scale = None THEN scale ELSE sub_layer_scale
    IN  [self |-> self,
         ret |-> Token(self.cls,
                   <<self.in_channels,
                     smart_round(<<self.out_channels * cs[1], cs[2]>>, DefaultRoundBase),
                     self.stride,
                     smart_round(<<self.out_channels * cs[1], cs[2]>>, DefaultRoundBase),
                     Max(1, Round(self.sub_layers * ss[1], ss[2]))>>)]

\* SuperVoVKXLX.structure_scale(scale, channel_scale, sub_layer_scale); the
\* factors are rationals <<p, q>>
structure_scale(self, scale, channel_scale, sub_layer_scale) ==
    LET cs == IF channel_scale = None THEN scale ELSE channel_scale
        ss == IF sub_layer_scale = None THEN scale ELSE sub_layer_scale
        new_out_channels ==
            smart_round(<<self.out_channels * cs[1], cs[2]>>, DefaultRoundBase)
        new_bottleneck_channels ==
            smart_round(<<self.bottleneck_channels * cs[1], cs[2]>>, DefaultRoundBase)
        new_sub_layers == Max(1, Round(self.sub_layers * ss[1], ss[2]))
    IN  [self |-> self,
         ret |-> Token(self.cls, <<self.in_channels, new_out_channels, self.stride,
                                   new_bottleneck_channels, new_sub_layers>>)]

(***************************************************************************)
(* Search-space generator (search_space_ghostshuffle).                     *)
(***************************************************************************)
SuperGhostShuffleName(k) ==
    <<"S", "u", "p", "e", "r", "G", "h", "o", "s", "t", "S", "h", "u", "f", "f", "l", "e", "K">> \o NatToStr(k)

\* one family: SuperGhostShuffleK3, K5, K7
seach_space_block_type_list_list ==
    <<<<SuperGhostShuffleName(3), SuperGhostShuffleName(5), SuperGhostShuffleName(7)>>>>

block_type_round_channels_base_dict(block_type) == 8

block_type_min_channels_base_dict(block_type) == 8

\* the class names of super_blocks.SuperConvKXBNRELU and its subclasses
SuperConvKXBNRELUName(k) ==
    <<"S", "u", "p", "e", "r", "C", "o", "n", "v", "K">> \o NatToStr(k) \o <<"B", "N", "R", "E", "L", "U">>

\* isinstance(the_block, super_blocks.SuperConvKXBNRELU)
IsSuperConvKXBNRELU(the_block) ==
    the_block.cls \in {SuperConvKXBNRELUName(k) : k \in {1, 3, 5, 7}}

\* a SuperConvK?BNRELU block as gen_search_space reads it
SuperConvKXBNRELU_block(kernel_size, in_channels, out_channels, stride) ==
    [cls |-> SuperConvKXBNRELUName(kernel_size), in_channels |-> in_channels,
     out_channels |-> out_channels, stride |-> stride, sub_layers |-> 1,
     kernel_size |-> kernel_size]

Reverse(seq) == [i \in 1..Len(seq) |-> seq[Len(seq) + 1 - i]]

\* a faulty variant of list(set(seq)): nothing is dropped
list_set_keep_all(seq, order) == IF order = "reversed" THEN Reverse(seq) ELSE seq

\* list(set(seq)): each element once.  Python fixes no order for the result
\* (for text it changes from run to run with the hash seed); order names the
\* one taken: first occurrences in list order, or that order reversed.
list_set(seq, order) ==
    LET idx == [i \in 1..Len(seq) |-> i]
        first == SelectSeq(idx, LAMBDA i : \A j \in 1..(i - 1) : seq[j] # seq[i])
        uniq == IF Cardinality({seq[i] : i \in 1..Len(seq)}) = Len(seq) THEN seq
                ELSE [k \in 1..Len(first) |-> seq[first[k]]]
    IN  IF order = "reversed" THEN Reverse(uniq) ELSE uniq

SetOrders == {"listed", "reversed"}

\* the_list.sort(reverse=True)
RECURSIVE SortReverse(_)
SortReverse(the_list) ==
    IF the_list = <<>> THEN <<>>
    ELSE LET i == CHOOSE k \in 1..Len(the_list) :
                      \A j \in 1..Len(the_list) : the_list[j] <= the_list[k]
         IN  <<the_list[i]>>
             \o SortReverse(SubSeq(the_list, 1, i - 1) \o SubSeq(the_list, i + 1, Len(the_list)))

\* max(8, x) for the rational x
Max8(x) == IF x[1] < 8 * x[2] THEN <<8, 1>> ELSE x

\* a faulty variant of get_select_student_channels_list: the ratio 2.5 is
\* missing
get_select_student_channels_list_no_top_ratio(out_channels) ==
    LET c == out_channels
        the_list == << <<2 * c, 1>>, <<3 * c, 2>>, <<5 * c, 4>>,
                       <<c, 1>>,
                       <<4 * c, 5>>, <<2 * c, 3>>, <<c, 2>>, <<2 * c, 5>> >>
        floored == [i \in 1..Len(the_list) |-> Max8(the_list[i])]
        rounded == [i \in 1..Len(floored) |-> smart_round(floored[i], 8)]
    IN  SortReverse(list_set(rounded, "listed"))

get_select_student_channels_list(out_channels) ==
    LET c == out_channels
        the_list == << <<5 * c, 2>>, <<2 * c, 1>>, <<3 * c, 2>>, <<5 * c, 4>>,
                       <<c, 1>>,
                       <<4 * c, 5>>, <<2 * c, 3>>, <<c, 2>>, <<2 * c, 5>> >>
        floored == [i \in 1..Len(the_list) |-> Max8(the_list[i])]
        rounded == [i \in 1..Len(floored) |-> smart_round(floored[i], 8)]
    IN  SortReverse(list_set(rounded, "listed"))

\* a faulty variant of get_select_student_sublayers_list: sub_layers itself
\* is not in the list
get_select_student_sublayers_list_no_identity(sub_layers) ==
    LET the_list == <<sub_layers + 1, sub_layers + 2,
                      sub_layers - 1, sub_layers - 2>>
        clamped == [i \in 1..Len(the_list) |-> Max(0, Round(the_list[i], 1))]
    IN  SortReverse(list_set(clamped, "listed"))

\* a faulty variant of get_select_student_sublayers_list: no floor of 0
get_select_student_sublayers_list_no_floor(sub_layers) ==
    LET the_list == <<sub_layers, sub_layers + 1, sub_layers + 2,
                      sub_layers - 1, sub_layers - 2>>
    IN  SortReverse(list_set(the_list, "listed"))

get_select_student_sublayers_list(sub_layers) ==
    LET the_list == <<sub_layers, sub_layers + 1, sub_layers + 2,
                      sub_layers - 1, sub_layers - 2>>
        clamped == [i \in 1..Len(the_list) |-> Max(0, Round(the_list[i], 1))]
    IN  SortReverse(list_set(clamped, "listed"))

\* a faulty variant of the product loop: the two `continue` tests are turned
\* around, so only the candidates that should be dropped are kept
StudentBlocksOfType_inverted(the_block, student_block_type, outs, subs, btls) ==
    LET nb == Len(btls)
        ns == Len(subs)
        tuples == [i \in 1..(Len(outs) * ns * nb) |->
                      <<outs[((i - 1) \div (ns * nb)) + 1],
                        subs[(((i - 1) \div nb) % ns) + 1],
                        btls[((i - 1) % nb) + 1]>>]
        kept == SelectSeq(tuples, LAMBDA t :
                    \/ smart_round(<<t[1], 1>>, 8) < 8 \/ smart_round(<<t[3], 1>>, 8) < 8
                    \/ t[2] <= 0)
    IN  [i \in 1..Len(kept) |->
            Token(student_block_type, <<the_block.in_channels, smart_round(<<kept[i][1], 1>>, 8),
                                        the_block.stride, smart_round(<<kept[i][3], 1>>, 8),
                                        kept[i][2]>>)]

\* a faulty variant of the product loop: the `student_sublayers <= 0` test
\* is missing
StudentBlocksOfType_no_sublayer_test(the_block, student_block_type, outs, subs, btls) ==
    LET nb == Len(btls)
        ns == Len(subs)
        tuples == [i \in 1..(Len(outs) * ns * nb) |->
                      <<outs[((i - 1) \div (ns * nb)) + 1],
                        subs[(((i - 1) \div nb) % ns) + 1],
                        btls[((i - 1) % nb) + 1]>>]
        kept == SelectSeq(tuples, LAMBDA t :
                    ~(smart_round(<<t[1], 1>>, 8) < 8 \/ smart_round(<<t[3], 1>>, 8) < 8))
    IN  [i \in 1..Len(kept) |->
            Token(student_block_type, <<the_block.in_channels, smart_round(<<kept[i][1], 1>>, 8),
                                        the_block.stride, smart_round(<<kept[i][3], 1>>, 8),
                                        kept[i][2]>>)]

\* the candidates the itertools.product loop appends for one student block
\* type, in loop order (out channels outermost, bottleneck innermost)
StudentBlocksOfType(the_block, student_block_type, outs, subs, btls) ==
    LET nb == Len(btls)
        ns == Len(subs)
        tuples == [i \in 1..(Len(outs) * ns * nb) |->
                      <<outs[((i - 1) \div (ns * nb)) + 1],
                        subs[(((i - 1) \div nb) % ns) + 1],
                        btls[((i - 1) % nb) + 1]>>]
        min_possible_channels == block_type_round_channels_base_dict(student_block_type)
        channel_round_base == block_type_round_channels_base_dict(student_block_type)
        out_of(t) == smart_round(<<t[1], 1>>, channel_round_base)
        btl_of(t) == smart_round(<<t[3], 1>>, channel_round_base)
        kept == SelectSeq(tuples, LAMBDA t :
                    /\ ~(out_of(t) < min_possible_channels \/ btl_of(t) < min_possible_channels)
                    /\ ~(t[2] <= 0))
    IN  [i \in 1..Len(kept) |->
            Token(student_block_type, <<the_block.in_channels, out_of(kept[i]),
                                        the_block.stride, btl_of(kept[i]), kept[i][2]>>)]

\* the `for student_block_type in student_block_type_list` loop from type k
\* on.  student_blocks_list is carried from one type to the next: a pass
\* appends its candidates to it, rebinds the name to the deduplicated copy and
\* appends that copy to the result.  The copy in the result is the very list
\* the next pass appends to (before it rebinds the name in turn), so every
\* returned list but the last also ends with the next type's candidates.
RECURSIVE StudentTypeLoop(_, _, _, _, _, _, _, _)
StudentTypeLoop(the_block, types, k, student_blocks_list, outs, subs, btls, order) ==
    IF k > Len(types) THEN [err |-> "none", lists |-> <<>>]
    ELSE LET appended == student_blocks_list
                         \o StudentBlocksOfType(the_block, types[k], outs, subs, btls)
             deduped == list_set(appended, order)
             aliased == IF k < Len(types)
                        THEN deduped \o StudentBlocksOfType(the_block, types[k + 1],
                                                            outs, subs, btls)
                        ELSE deduped
             more == StudentTypeLoop(the_block, types, k + 1, deduped, outs, subs, btls, order)
         IN  IF ~(Len(deduped) >= 1) THEN [err |-> "AssertionError", lists |-> <<>>]
             ELSE IF more.err # "none" THEN more
             ELSE [err |-> "none", lists |-> <<aliased>> \o more.lists]

\* the `for student_block_type_list in seach_space_block_type_list_list` loop
RECURSIVE StudentFamilyLoop(_, _, _)
StudentFamilyLoop(the_block, f, order) ==
    IF f > Len(seach_space_block_type_list_list) THEN [err |-> "none", lists |-> <<>>]
    ELSE LET this == StudentTypeLoop(the_block, seach_space_block_type_list_list[f], 1, <<>>,
                         get_select_student_channels_list(the_block.out_channels),
                         get_select_student_sublayers_list(the_block.sub_layers),
                         get_select_student_channels_list(the_block.bottleneck_channels),
                         order)
             more == StudentFamilyLoop(the_block, f + 1, order)
         IN  IF this.err # "none" THEN this
             ELSE IF more.err # "none" THEN more
             ELSE [err |-> "none", lists |-> this.lists \o more.lists]

\* a faulty variant of gen_search_space: the kernel_size == 1 test is
\* missing, so the width of the head is put through the ratio rule as well
gen_search_space_scale_head(block_list, block_id, order) ==
    LET the_block == block_list[block_id + 1]
    IN  IF IsSuperConvKXBNRELU(the_block)
        THEN LET student_out_channels_list ==
                     get_select_student_channels_list(the_block.out_channels)
                 student_blocks_list ==
                     [i \in 1..Len(student_out_channels_list) |->
                         Token(the_block.cls, <<the_block.in_channels,
                               student_out_channels_list[i], the_block.stride, 1>>)]
                 deduped == list_set(student_blocks_list, order)
             IN  IF ~(Len(deduped) >= 1) THEN [err |-> "AssertionError", lists |-> <<>>]
                 ELSE [err |-> "none", lists |-> <<deduped>>]
        ELSE StudentFamilyLoop(the_block, 1, order)

\* gen_search_space(block_list, block_id); block_id is 0-based
gen_search_space(block_list, block_id, order) ==
    LET the_block == block_list[block_id + 1]
    IN  IF IsSuperConvKXBNRELU(the_block)
        THEN LET student_out_channels_list ==
                     IF the_block.kernel_size = 1 THEN <<the_block.out_channels>>
                     ELSE get_select_student_channels_list(the_block.out_channels)
                 student_blocks_list ==
                     [i \in 1..Len(student_out_channels_list) |->
                         Token(the_block.cls, <<the_block.in_channels,
                               student_out_channels_list[i], the_block.stride, 1>>)]
                 deduped == list_set(student_blocks_list, order)
             IN  IF ~(Len(deduped) >= 1) THEN [err |-> "AssertionError", lists |-> <<>>]
                 ELSE [err |-> "none", lists |-> <<deduped>>]
        ELSE StudentFamilyLoop(the_block, 1, order)

(***************************************************************************)
(* Checkpoint files and training status of train_image_classification.     *)
(* The save directory is a function from file names to contents; the       *)
(* weights and the optimizer state stored with an epoch are left out, the  *)
(* epoch number stands for them.                                           *)
(***************************************************************************)
\* contents of a file: none, a file torch.save has opened and not finished,
\* or a completely written object
Absent == [kind |-> "absent"]

Partial == [kind |-> "partial"]

Complete(obj) == [kind |-> "complete", obj |-> obj]

latest_pth_fn == "latest-params_rank0.pth"

best_pth_fn == "best-params_rank0.pth"

job_done_fn == "train_image_classification.done"

\* save_checkpoint: backup_filename
backup_filename(checkpoint_filename) == checkpoint_filename \o ".backup"

FileNames ==
    {latest_pth_fn, backup_filename(latest_pth_fn), best_pth_fn, backup_filename(best_pth_fn),
     job_done_fn}

\* os.path.isfile
isfile(fs, filename) == fs[filename] # Absent

\* save_checkpoint, first file-system step: with a checkpoint file present,
\* a backup left behind is removed
save_checkpoint_remove_old_backup(fs, checkpoint_filename) ==
    IF isfile(fs, checkpoint_filename) /\ isfile(fs, backup_filename(checkpoint_filename))
    THEN [fs EXCEPT ![backup_filename(checkpoint_filename)] = Absent]
    ELSE fs

\* a faulty variant of the second step: the old checkpoint is removed, not kept
save_checkpoint_rename_unlinks(fs, checkpoint_filename) ==
    IF isfile(fs, checkpoint_filename)
    THEN [fs EXCEPT ![checkpoint_filename] = Absent]
    ELSE fs

\* save_checkpoint, second step: the checkpoint file becomes the backup
save_checkpoint_rename(fs, checkpoint_filename) ==
    IF isfile(fs, checkpoint_filename)
    THEN [fs EXCEPT ![backup_filename(checkpoint_filename)] = fs[checkpoint_filename],
                    ![checkpoint_filename] = Absent]
    ELSE fs

\* torch.save, opening the file for writing
torch_save_open(fs, checkpoint_filename) == [fs EXCEPT ![checkpoint_filename] = Partial]

\* torch.save, the object written and the file closed
torch_save_close(fs, checkpoint_filename, state_dict) ==
    [fs EXCEPT ![checkpoint_filename] = Complete(state_dict)]

\* save_checkpoint, last step: the backup is removed
save_checkpoint_remove_backup(fs, checkpoint_filename) ==
    IF isfile(fs, backup_filename(checkpoint_filename))
    THEN [fs EXCEPT ![backup_filename(checkpoint_filename)] = Absent]
    ELSE fs

\* training_status_info as main and train_all_epochs initialise it (the
\* elapsed times are left out)
InitialStatus ==
    [best_acc1 |-> 0, best_acc5 |-> 0, best_acc1_at_epoch |-> 0, best_acc5_at_epoch |-> 0]

\* a faulty variant of the best-accuracy update: a tie counts as a new best
remember_best_on_tie(status, top1_acc, top5_acc, at_epoch) ==
    [is_best_acc1 |-> top1_acc >= status.best_acc1,
     is_best_acc5 |-> top5_acc >= status.best_acc5,
     training_status_info |->
        [best_acc1 |-> Max(top1_acc, status.best_acc1),
         best_acc5 |-> Max(top5_acc, status.best_acc5),
         best_acc1_at_epoch |-> IF top1_acc >= status.best_acc1 THEN at_epoch
                                ELSE status.best_acc1_at_epoch,
         best_acc5_at_epoch |-> IF top5_acc >= status.best_acc5 THEN at_epoch
                                ELSE status.best_acc5_at_epoch]]

\* train_all_epochs, "remember best acc@1": the flags and the updated status
remember_best(status, top1_acc, top5_acc, at_epoch) ==
    [is_best_acc1 |-> top1_acc > status.best_acc1,
     is_best_acc5 |-> top5_acc > status.best_acc5,
     training_status_info |->
        [best_acc1 |-> Max(top1_acc, status.best_acc1),
         best_acc5 |-> Max(top5_acc, status.best_acc5),
         best_acc1_at_epoch |-> IF top1_acc > status.best_acc1 THEN at_epoch
                                ELSE status.best_acc1_at_epoch,
         best_acc5_at_epoch |-> IF top5_acc > status.best_acc5 THEN at_epoch
                                ELSE status.best_acc5_at_epoch]]

\* the object train_all_epochs hands to save_checkpoint
CheckpointObject(at_epoch, top1_acc, top5_acc, status) ==
    [epoch |-> at_epoch, top1_acc |-> top1_acc, top5_acc |-> top5_acc,
     training_status_info |-> status]

\* resume_checkpoint: torch.load fails on a missing and on an unfinished file;
\* otherwise training goes on after the stored epoch with the stored status
resume_checkpoint(fs, checkpoint_filename, configured_start_epoch) ==
    IF fs[checkpoint_filename] = Absent
    THEN [err |-> "FileNotFoundError", start_epoch |-> configured_start_epoch,
          training_status_info |-> InitialStatus]
    ELSE IF fs[checkpoint_filename] = Partial
    THEN [err |-> "LoadError", start_epoch |-> configured_start_epoch,
          training_status_info |-> InitialStatus]
    ELSE [err |-> "none", start_epoch |-> fs[checkpoint_filename].obj.epoch + 1,
          training_status_info |-> fs[checkpoint_filename].obj.training_status_info]

\* opt.resume when no file is given
ResumeNone == "None"

(***************************************************************************)
(* State.                                                                  *)
(***************************************************************************)
VARIABLES
    struct_str,     \* the architecture code handed to the decoder
    kwargs,         \* the decode context: no_reslink, no_BN, no_relu, use_se
    the_block,      \* the block object the operations act on
    first_block,    \* the block as the first decode of the literal built it
    remainder,      \* the text create_from_str returned with the block
    err,            \* the exception the last call raised, "none" if none
    ret,            \* the text returned by the last transform
    op,             \* the last operation
    arg,            \* its arguments
    decodes,        \* number of create_from_str calls so far
    uuid_count,     \* number of fresh block names drawn so far
    block_list,     \* the block sequence handed to gen_search_space
    student_blocks_list_list,   \* what gen_search_space returned
    files,          \* the save directory: file name -> contents
    opt,            \* the options main is started with
    pc,             \* where main is: "stopped" when no process runs
    epoch,          \* train_all_epochs: the loop variable
    start_epoch,    \* opt.start_epoch of the running process
    training_status_info,   \* the best accuracies and their epochs
    acc1,           \* train_all_epochs: top-1 accuracy of the last validation
    acc5,           \* train_all_epochs: top-5 accuracy of the last validation
    is_best_acc1,   \* train_all_epochs: the flag of the last epoch
    checkpoint_filename,    \* save_checkpoint: the file being saved
    state_dict,     \* save_checkpoint: the object being saved
    entry_checkpoint,   \* contents of the checkpoint file when save_checkpoint was called
    saved_epoch,    \* the highest epoch of a completely saved latest-params file, -1 if none
    best_written,   \* the epoch of the last best-params file written by this process, -1 if none
    runs            \* number of starts of main so far

search_vars == <<block_list, student_blocks_list_list>>

train_vars ==
    <<files, opt, pc, epoch, start_epoch, training_status_info, acc1, acc5, is_best_acc1,
      checkpoint_filename, state_dict, entry_checkpoint, saved_epoch, best_written, runs>>

code_vars ==
    <<struct_str, kwargs, the_block, first_block, remainder, ret, op, arg, decodes,
      uuid_count>>

vars == <<struct_str, kwargs, the_block, first_block, remainder, err, ret, op, arg,
          decodes, uuid_count, block_list, student_blocks_list_list, train_vars>>

(***************************************************************************)
(* Inputs.                                                                 *)
(***************************************************************************)
\* the block types the input literals are drawn from
InputTypes ==
    {c \in register_netblocks_dict :
        <<c.kernel_size, c.osa_layers>> \in {<<3, 1>>, <<5, 2>>, <<7, 3>>}}

ChannelValues == {8 * k : k \in 1..MaxChanMult}

DefaultKwargs == [no_reslink |-> FALSE, no_BN |-> FALSE, no_relu |-> FALSE, use_se |-> FALSE]

\* the default context and each flag set on its own
KwargsValues ==
    {DefaultKwargs,
     [DefaultKwargs EXCEPT !.no_reslink = TRUE],
     [DefaultKwargs EXCEPT !.no_BN = TRUE],
     [DefaultKwargs EXCEPT !.no_relu = TRUE],
     [DefaultKwargs EXCEPT !.use_se = TRUE]}

\* the optional `name|` prefix: none, or the name b0
BlockNames == {<<>>, <<"b", "0">>}

\* a well-formed literal Type(name|in,out,stride,bottleneck,sub_layers)
Literal(cls, name, fields) ==
    Wrap(cls.name, (IF name = <<>> THEN <<>> ELSE name \o <<"|">>) \o JoinInts(fields))

Literals ==
    {Literal(c, n, <<8, o, s, b, l>>) :
        c \in InputTypes, n \in BlockNames, o \in ChannelValues, s \in {1, 2},
        b \in ChannelValues, l \in 1..MaxSubLayers}

\* literals off the well-formed path, on the parameters 8,16,2,8,2: a `|`
\* after the first comma, a sixth field (numeric or not), a missing field, a
\* field that is no number, an empty body, no closing parenthesis, nested
\* parentheses in the name (balanced and not), and text after the token
OtherBodies ==
    {<<"8", ",", "8", "|", "8", ",", "1", "6", ",", "2", ",", "8", ",", "2", ")">>,
     <<"8", ",", "1", "6", ",", "2", ",", "8", ",", "2", ",", "9", "9", ")">>,
     <<"8", ",", "1", "6", ",", "2", ",", "8", ",", "2", ",", "x", ")">>,
     <<"8", ",", "1", "6", ",", "2", ",", "8", ")">>,
     <<"8", ",", "1", "6", ",", "x", ",", "8", ",", "2", ")">>,
     <<")">>,
     <<"8", ",", "1", "6", ",", "2", ",", "8", ",", "2">>,
     <<"b", "(", "0", ")", "|", "8", ",", "1", "6", ",", "2", ",", "8", ",", "2", ")",
       "R", "E", "L", "U", "(", "1", "6", ")">>,
     <<"b", "(", "0", "|", "8", ",", "1", "6", ",", "2", ",", "8", ",", "2", ")">>,
     <<"b", "0", "|", "8", ",", "1", "6", ",", "2", ",", "8", ",", "2", ")",
       "R", "E", "L", "U", "(", "1", "6", ")">>,
     <<"8", ",", "1", "6", ",", "2", ",", "8", ",", "2", ")",
       "B", "N", "(", "1", "6", ")", "R", "E", "L", "U", "(", "1", "6", ")">>}

OtherLiterals == {c.name \o <<"(">> \o b : c \in InputTypes, b \in OtherBodies}

Thresholds == 0..MaxThreshold

\* (scale, channel_scale, sub_layer_scale) as passed to structure_scale
ScaleArgs ==
    {<<sc, None, None>> : sc \in {<<1, 2>>, <<1, 1>>, <<3, 2>>}}
    \cup {<<<<1, 1>>, <<2, 1>>, <<1, 2>>>>,
          <<<<1, 2>>, <<2, 1>>, None>>,
          <<<<3, 2>>, None, <<1, 2>>>>}

\* no training process and an empty save directory
NoTraining ==
    /\ files = [f \in FileNames |-> Absent]
    /\ opt = [auto_resume |-> FALSE, resume |-> ResumeNone, evaluate_only |-> FALSE,
              start_epoch |-> 0, epochs |-> 0, save_freq |-> 1]
    /\ pc = "stopped"
    /\ epoch = 0
    /\ start_epoch = 0
    /\ training_status_info = InitialStatus
    /\ acc1 = 0
    /\ acc5 = 0
    /\ is_best_acc1 = FALSE
    /\ checkpoint_filename = "None"
    /\ state_dict = Absent
    /\ entry_checkpoint = Absent
    /\ saved_epoch = -1
    /\ best_written = -1
    /\ runs = 0

(***************************************************************************)
(* Operations.                                                             *)
(***************************************************************************)
Init ==
    /\ struct_str \in Literals \cup OtherLiterals
    /\ kwargs \in KwargsValues
    /\ the_block = NoBlock
    /\ first_block = NoBlock
    /\ remainder = <<>>
    /\ err = "none"
    /\ ret = <<>>
    /\ op = "init"
    /\ arg = <<>>
    /\ decodes = 0
    /\ uuid_count = 0
    /\ block_list = <<>>
    /\ student_blocks_list_list = <<>>
    /\ NoTraining

\* the registry hands struct_str to the class whose name it starts with
Decode ==
    /\ op \in {"init", "str"}
    /\ \E cls \in register_netblocks_dict :
        /\ is_instance_from_str(cls, struct_str)
        /\ \E r \in {create_from_str(cls, struct_str, kwargs, UuidName(uuid_count + 1))} :
               /\ err' = r.err
               /\ the_block' = r.block
               /\ remainder' = r.rest
               /\ first_block' = IF decodes = 0 THEN r.block ELSE first_block
    /\ uuid_count' = uuid_count + 1
    /\ decodes' = decodes + 1
    /\ op' = "decode"
    /\ UNCHANGED <<struct_str, kwargs, ret, arg, search_vars, train_vars>>

\* str(the_block), handed back to the decoder
Str ==
    /\ op = "decode" /\ err = "none" /\ decodes = 1
    /\ struct_str' = SuperVoVKXLX_str(the_block)
    /\ op' = "str"
    /\ UNCHANGED <<kwargs, the_block, first_block, remainder, err, ret, arg, decodes,
                   uuid_count, search_vars, train_vars>>

Split ==
    /\ op = "decode" /\ err = "none" /\ decodes = 1
    /\ \E t \in Thresholds :
        /\ the_block' = split(the_block, t).self
        /\ ret' = split(the_block, t).ret
        /\ arg' = <<t>>
    /\ op' = "split"
    /\ UNCHANGED <<struct_str, kwargs, first_block, remainder, err, decodes, uuid_count,
                   search_vars, train_vars>>

StructureScale ==
    /\ op = "decode" /\ err = "none" /\ decodes = 1
    /\ \E a \in ScaleArgs :
        /\ the_block' = structure_scale(the_block, a[1], a[2], a[3]).self
        /\ ret' = structure_scale(the_block, a[1], a[2], a[3]).ret
        /\ arg' = a
    /\ op' = "structure_scale"
    /\ UNCHANGED <<struct_str, kwargs, first_block, remainder, err, decodes, uuid_count,
                   search_vars, train_vars>>

Next == Decode \/ Str \/ Split \/ StructureScale

Spec == Init /\ [][Next]_vars

(***************************************************************************)
(* The search-space generator on a three-block sequence: a stem conv, a    *)
(* composite block, a kernel-1 head.                                       *)
(***************************************************************************)
\* type and stride of the composite target
SearchTargets ==
    {<<c, st>> \in InputTypes \X {1, 2} :
        <<c.kernel_size, st>> \in {<<3, 1>>, <<5, 2>>}}

SearchBlockLists ==
    {<<SuperConvKXBNRELU_block(3, 3, 8, 2),
       SuperVoVKXLX_init(t[1], 8, o, t[2], b, l, DefaultKwargs, <<"b", "1">>),
       SuperConvKXBNRELU_block(1, o, 8 * o, 1)>> :
        t \in SearchTargets, o \in ChannelValues, b \in ChannelValues, l \in 1..MaxSubLayers}

InitSearch ==
    /\ block_list \in SearchBlockLists
    /\ student_blocks_list_list = <<>>
    /\ struct_str = <<>>
    /\ kwargs = DefaultKwargs
    /\ the_block = NoBlock
    /\ first_block = NoBlock
    /\ remainder = <<>>
    /\ err = "none"
    /\ ret = <<>>
    /\ op = "init"
    /\ arg = <<>>
    /\ decodes = 0
    /\ uuid_count = 0
    /\ NoTraining

GenSearchSpace ==
    /\ op = "init"
    /\ \E block_id \in 0..(Len(block_list) - 1), order \in SetOrders :
        LET r == gen_search_space(block_list, block_id, order)
        IN  /\ err' = r.err
            /\ student_blocks_list_list' = r.lists
            /\ arg' = <<block_id, order>>
    /\ op' = "gen_search_space"
    /\ UNCHANGED <<struct_str, kwargs, the_block, first_block, remainder, ret, decodes,
                   uuid_count, block_list, train_vars>>

\* get_select_student_channels_list called on its own
GetSelectStudentChannelsList ==
    /\ op = "init"
    /\ \E out_channels \in 1..MaxSelectChannels :
        /\ ret' = get_select_student_channels_list(out_channels)
        /\ arg' = <<out_channels>>
    /\ op' = "get_select_student_channels_list"
    /\ UNCHANGED <<struct_str, kwargs, the_block, first_block, remainder, err, decodes,
                   uuid_count, search_vars, train_vars>>

\* get_select_student_sublayers_list called on its own
GetSelectStudentSublayersList ==
    /\ op = "init"
    /\ \E sub_layers \in (-MaxSelectSubLayers)..MaxSelectSubLayers :
        /\ ret' = get_select_student_sublayers_list(sub_layers)
        /\ arg' = <<sub_layers>>
    /\ op' = "get_select_student_sublayers_list"
    /\ UNCHANGED <<struct_str, kwargs, the_block, first_block, remainder, err, decodes,
                   uuid_count, search_vars, train_vars>>

NextSearch == GenSearchSpace \/ GetSelectStudentChannelsList \/ GetSelectStudentSublayersList

SpecSearch == InitSearch /\ [][NextSearch]_vars

(***************************************************************************)
(* Repeated split: the code is decoded, split(threshold) is applied to     *)
(* every block of the sequence, and the concatenated output is the code of *)
(* the next round.                                                         *)
(***************************************************************************)
\* the concatenation of split(threshold) over the blocks of a sequence
RECURSIVE SplitAll(_, _)
SplitAll(blocks, split_layer_threshold) ==
    IF blocks = <<>> THEN <<>>
    ELSE split(Head(blocks), split_layer_threshold).ret
         \o SplitAll(Tail(blocks), split_layer_threshold)

InitSplitRounds ==
    /\ struct_str \in Literals
    /\ kwargs = DefaultKwargs
    /\ arg \in {<<t>> : t \in 1..MaxThreshold}
    /\ the_block = NoBlock
    /\ first_block = NoBlock
    /\ remainder = <<>>
    /\ err = "none"
    /\ ret = <<>>
    /\ op = "init"
    /\ decodes = 0
    /\ uuid_count = 0
    /\ block_list = <<>>
    /\ student_blocks_list_list = <<>>
    /\ NoTraining

\* one round: decode the current code, split every block, keep the output as
\* the code of the next round; decodes counts the rounds
SplitRound ==
    /\ err = "none"
    /\ decodes < MaxRounds
    /\ \E r \in {create_netblock_list_from_str(struct_str, kwargs, uuid_count)} :
        /\ err' = r.err
        /\ block_list' = r.block_list
        /\ uuid_count' = uuid_count + Len(r.block_list)
        /\ struct_str' = IF r.err = "none" THEN SplitAll(r.block_list, arg[1])
                         ELSE struct_str
    /\ ret' = struct_str
    /\ decodes' = decodes + 1
    /\ op' = "split"
    /\ UNCHANGED <<kwargs, the_block, first_block, remainder, arg, student_blocks_list_list, train_vars>>

NextSplitRounds == SplitRound

\* a round as seen on the round counter: every SplitRound step is one, and one
\* is possible exactly when SplitRound is
RoundStep == err = "none" /\ decodes < MaxRounds /\ decodes' = decodes + 1

\* the caller goes on with the next round as long as there is one to run
SpecSplitRounds == InitSplitRounds /\ [][NextSplitRounds]_vars /\ WF_decodes(RoundStep)

(***************************************************************************)
(* main of train_image_classification on rank 0 with save_params: starts,  *)
(* epochs, the file-system steps of save_checkpoint one by one, the done   *)
(* marker, and an interruption of the process at any point.                *)
(***************************************************************************)
\* (top-1, top-5) accuracies a validation can report: top-5 is never below top-1
AccValues == {a \in (0..MaxAcc) \X (0..MaxAcc) : a[1] <= a[2]}

\* opt.save_freq: a checkpoint after every epoch, or after every second one
SaveFreqs == {1, 2}

Options ==
    [auto_resume : BOOLEAN, resume : {ResumeNone, latest_pth_fn}, evaluate_only : BOOLEAN,
     start_epoch : {0}, epochs : {MaxEpochs}, save_freq : SaveFreqs]

\* the state a process starts with, and the state left when it has ended
NoProcess ==
    /\ pc' = "stopped"
    /\ epoch' = 0
    /\ start_epoch' = 0
    /\ training_status_info' = InitialStatus
    /\ acc1' = 0
    /\ acc5' = 0
    /\ is_best_acc1' = FALSE
    /\ checkpoint_filename' = "None"
    /\ state_dict' = Absent
    /\ entry_checkpoint' = Absent
    /\ best_written' = -1

InitTrain ==
    /\ opt \in Options
    /\ files = [f \in FileNames |-> Absent]
    /\ pc = "stopped"
    /\ epoch = 0
    /\ start_epoch = 0
    /\ training_status_info = InitialStatus
    /\ acc1 = 0
    /\ acc5 = 0
    /\ is_best_acc1 = FALSE
    /\ checkpoint_filename = "None"
    /\ state_dict = Absent
    /\ entry_checkpoint = Absent
    /\ saved_epoch = -1
    /\ best_written = -1
    /\ runs = 0
    /\ struct_str = <<>>
    /\ kwargs = DefaultKwargs
    /\ the_block = NoBlock
    /\ first_block = NoBlock
    /\ remainder = <<>>
    /\ err = "none"
    /\ ret = <<>>
    /\ op = "init"
    /\ arg = <<>>
    /\ decodes = 0
    /\ uuid_count = 0
    /\ block_list = <<>>
    /\ student_blocks_list_list = <<>>

\* the for loop of train_all_epochs at epoch e: the body, or past the loop
LoopAt(e) ==
    /\ epoch' = e
    /\ pc' = IF e < opt.epochs THEN "train" ELSE "mark_done"

\* save_checkpoint is entered for one file and one object
EnterSave(filename, obj) ==
    /\ checkpoint_filename' = filename
    /\ state_dict' = obj
    /\ entry_checkpoint' = files[filename]
    /\ pc' = "save_remove_old_backup"

\* main from its first line to the call of train_all_epochs (or validate)
Main ==
    /\ pc = "stopped"
    /\ runs < MaxRuns
    /\ runs' = runs + 1
    /\ UNCHANGED <<files, opt, saved_epoch, code_vars, search_vars>>
    /\ IF isfile(files, job_done_fn)
       THEN /\ err' = "none"
            /\ NoProcess
       ELSE \E r \in {IF opt.auto_resume /\ opt.resume = ResumeNone
                      THEN IF isfile(files, latest_pth_fn)
                           THEN resume_checkpoint(files, latest_pth_fn, opt.start_epoch)
                           ELSE [err |-> "none", start_epoch |-> opt.start_epoch,
                                 training_status_info |-> InitialStatus]
                      ELSE IF opt.resume # ResumeNone
                      THEN IF opt.auto_resume
                           THEN [err |-> "AssertionError", start_epoch |-> opt.start_epoch,
                                 training_status_info |-> InitialStatus]
                           ELSE resume_checkpoint(files, opt.resume, opt.start_epoch)
                      ELSE [err |-> "none", start_epoch |-> opt.start_epoch,
                            training_status_info |-> InitialStatus]} :
            /\ err' = r.err
            /\ IF r.err # "none"
               THEN NoProcess
               ELSE /\ start_epoch' = r.start_epoch
                    /\ training_status_info' = r.training_status_info
                    /\ IF opt.evaluate_only
                       THEN pc' = "mark_done" /\ epoch' = 0
                       ELSE LoopAt(r.start_epoch)
                    /\ UNCHANGED <<acc1, acc5, is_best_acc1, checkpoint_filename, state_dict,
                                   entry_checkpoint, best_written>>

\* one pass of the loop body up to the first save_checkpoint call, if any
TrainEpoch ==
    /\ pc = "train"
    /\ \E a \in AccValues :
        \E r \in {remember_best(training_status_info, a[1], a[2], epoch)} :
            /\ acc1' = a[1]
            /\ acc5' = a[2]
            /\ training_status_info' = r.training_status_info
            /\ is_best_acc1' = r.is_best_acc1
            /\ IF (epoch + 1) % opt.save_freq = 0 \/ epoch + 1 = opt.epochs
               THEN /\ EnterSave(latest_pth_fn,
                                 CheckpointObject(epoch, a[1], a[2], r.training_status_info))
                    /\ UNCHANGED epoch
               ELSE IF r.is_best_acc1
               THEN /\ EnterSave(best_pth_fn,
                                 CheckpointObject(epoch, a[1], a[2], r.training_status_info))
                    /\ UNCHANGED epoch
               ELSE /\ LoopAt(epoch + 1)
                    /\ UNCHANGED <<checkpoint_filename, state_dict, entry_checkpoint>>
    /\ UNCHANGED <<files, opt, start_epoch, saved_epoch, best_written, runs, err, code_vars,
                   search_vars>>

SaveRemoveOldBackup ==
    /\ pc = "save_remove_old_backup"
    /\ files' = save_checkpoint_remove_old_backup(files, checkpoint_filename)
    /\ pc' = "save_rename"
    /\ UNCHANGED <<opt, epoch, start_epoch, training_status_info, acc1, acc5, is_best_acc1,
                   checkpoint_filename, state_dict, entry_checkpoint, saved_epoch,
                   best_written, runs, err, code_vars, search_vars>>

SaveRename ==
    /\ pc = "save_rename"
    /\ files' = save_checkpoint_rename(files, checkpoint_filename)
    /\ pc' = "save_open"
    /\ UNCHANGED <<opt, epoch, start_epoch, training_status_info, acc1, acc5, is_best_acc1,
                   checkpoint_filename, state_dict, entry_checkpoint, saved_epoch,
                   best_written, runs, err, code_vars, search_vars>>

SaveOpen ==
    /\ pc = "save_open"
    /\ files' = torch_save_open(files, checkpoint_filename)
    /\ pc' = "save_write"
    /\ UNCHANGED <<opt, epoch, start_epoch, training_status_info, acc1, acc5, is_best_acc1,
                   checkpoint_filename, state_dict, entry_checkpoint, saved_epoch,
                   best_written, runs, err, code_vars, search_vars>>

SaveWrite ==
    /\ pc = "save_write"
    /\ files' = torch_save_close(files, checkpoint_filename, state_dict)
    /\ saved_epoch' = IF checkpoint_filename = latest_pth_fn
                      THEN Max(saved_epoch, state_dict.epoch) ELSE saved_epoch
    /\ best_written' = IF checkpoint_filename = best_pth_fn
                       THEN state_dict.epoch ELSE best_written
    /\ pc' = "save_remove_backup"
    /\ UNCHANGED <<opt, epoch, start_epoch, training_status_info, acc1, acc5, is_best_acc1,
                   checkpoint_filename, state_dict, entry_checkpoint, runs, err, code_vars,
                   search_vars>>

\* the last step of save_checkpoint and the return into the loop body: after
\* the latest-params file the best-params file is saved if the epoch was a best
SaveRemoveBackup ==
    /\ pc = "save_remove_backup"
    /\ files' = save_checkpoint_remove_backup(files, checkpoint_filename)
    /\ IF checkpoint_filename = latest_pth_fn /\ is_best_acc1
       THEN /\ EnterSave(best_pth_fn,
                         CheckpointObject(epoch, acc1, acc5, training_status_info))
            /\ UNCHANGED epoch
       ELSE /\ LoopAt(epoch + 1)
            /\ checkpoint_filename' = "None"
            /\ state_dict' = Absent
            /\ entry_checkpoint' = Absent
    /\ UNCHANGED <<opt, start_epoch, training_status_info, acc1, acc5, is_best_acc1,
                   saved_epoch, best_written, runs, err, code_vars, search_vars>>

\* "mark job done", the last line of main
MarkDone ==
    /\ pc = "mark_done"
    /\ files' = [files EXCEPT ![job_done_fn] = Complete(training_status_info)]
    /\ NoProcess
    /\ UNCHANGED <<opt, saved_epoch, runs, err, code_vars, search_vars>>

\* the process is interrupted: what it held in memory is gone, the files stay
Interrupt ==
    /\ pc # "stopped"
    /\ NoProcess
    /\ UNCHANGED <<files, opt, saved_epoch, runs, err, code_vars, search_vars>>

NextTrain ==
    \/ Main
    \/ TrainEpoch
    \/ SaveRemoveOldBackup
    \/ SaveRename
    \/ SaveOpen
    \/ SaveWrite
    \/ SaveRemoveBackup
    \/ MarkDone
    \/ Interrupt

SpecTrain == InitTrain /\ [][NextTrain]_vars

(***************************************************************************)
(* Properties of decode, canonical string, split and structure_scale.      *)
(***************************************************************************)
\* the attributes a literal spells out, with the type
Attrs(b) ==
    <<b.cls, b.in_channels, b.out_channels, b.stride, b.bottleneck_channels, b.sub_layers>>

\* the blocks a returned code decodes to
Decoded(code) == create_netblock_list_from_str(code, kwargs, uuid_count).block_list

\* the tokens of a composite block's synthesized inner code, stage by stage
RECURSIVE LeafSeq(_)
LeafSeq(stages) ==
    IF stages = <<>> THEN <<>>
    ELSE [i \in 1..Len(stages[1].inner) |->
             <<stages[1].inner[i].type, stages[1].inner[i].args>>]
         \o LeafSeq(Tail(stages))

RECURSIVE LeafSeqOfBlocks(_)
LeafSeqOfBlocks(blocks) ==
    IF blocks = <<>> THEN <<>>
    ELSE LeafSeq(blocks[1].block_list) \o LeafSeqOfBlocks(Tail(blocks))

\* v is the multiple of base nearest to p / q, and base when that is smaller
IsRoundToBase(v, p, q, base) ==
    /\ v % base = 0
    /\ v >= base
    /\ \/ (2 * (v * q - p) <= base * q /\ 2 * (p - v * q) <= base * q)
       \/ (v = base /\ p < base * q)

\* C1: decoding a well-formed literal, serializing the node with __str__ and
\* decoding that string again gives a node of the same type with the same
\* in_channels, out_channels, stride, bottleneck_channels and sub_layers, and
\* an empty remainder.
C1_RoundTrip ==
    (op = "decode" /\ decodes = 2) =>
        /\ err = "none"
        /\ Attrs(the_block) = Attrs(first_block)
        /\ remainder = <<>>

\* a literal with a `name|` prefix has gone through decode, __str__, decode
C1_Witness ==
    /\ op = "decode" /\ decodes = 2
    /\ first_block.block_name = <<"b", "0">>
    /\ first_block.stride = 2 /\ first_block.sub_layers = 2

C3_SplitKeepsComputation ==
    op = "split" => LeafSeqOfBlocks(Decoded(ret)) = LeafSeq(first_block.block_list)

\* C4 (as claimed): every block returned by one call of split(threshold) has
\* sub_layers strictly below threshold.
C4_AllBlocksBelowThreshold ==
    op = "split" =>
        \A i \in 1..Len(Decoded(ret)) : Decoded(ret)[i].sub_layers < arg[1]

\* C4 (amended): for threshold >= 1 the first block returned by one call of
\* split(threshold) has sub_layers strictly below threshold; the second block
\* only has the remaining sub_layers - threshold // 2.
C4_FirstBlockBelowThreshold ==
    (op = "split" /\ arg[1] >= 1) =>
        LET b == Decoded(ret)
        IN  /\ b[1].sub_layers < arg[1]
            /\ Len(b) = 2 => b[2].sub_layers = first_block.sub_layers - (arg[1] \div 2)

\* a split whose second block still reaches the threshold
C4_Witness ==
    /\ op = "split" /\ arg[1] >= 1
    /\ Len(Decoded(ret)) = 2
    /\ Decoded(ret)[2].sub_layers >= arg[1]

\* C5: structure_scale returns a code whose out_channels and
\* bottleneck_channels are the multiple of the base nearest to
\* original * channel_scale, never below the base, and whose sub_layers is
\* max(1, round(original * sub_layer_scale)) >= 1; each factor is the shared
\* scale when not given and is otherwise applied on its own.
C5_ScaleResult ==
    op = "structure_scale" =>
        LET cs == IF arg[2] = None THEN arg[1] ELSE arg[2]
            ss == IF arg[3] = None THEN arg[1] ELSE arg[3]
            p == first_block
            b == Decoded(ret)[1]
        IN  /\ IsRoundToBase(b.out_channels, p.out_channels * cs[1], cs[2],
                             DefaultRoundBase)
            /\ IsRoundToBase(b.bottleneck_channels, p.bottleneck_channels * cs[1], cs[2],
                             DefaultRoundBase)
            /\ IsRoundToBase(b.sub_layers, p.sub_layers * ss[1], ss[2], 1)
            /\ b.sub_layers >= 1

\* channel_scale 2 and sub_layer_scale 1/2 given apart from scale 1, on a
\* block whose halved sub_layers round to the floor of 1
C5_Witness ==
    /\ op = "structure_scale"
    /\ arg = <<<<1, 1>>, <<2, 1>>, <<1, 2>>>>
    /\ first_block.sub_layers = 1 /\ first_block.out_channels = 8
    /\ Decoded(ret)[1].out_channels = 16 /\ Decoded(ret)[1].sub_layers = 1

\* C6: for a node whose out_channels and bottleneck_channels are multiples of
\* the rounding base and at least the base, with sub_layers >= 1,
\* structure_scale(1.0) returns str(node).
C6_ScaleIdentity ==
    (/\ op = "structure_scale" /\ arg = <<<<1, 1>>, None, None>>
     /\ first_block.out_channels % DefaultRoundBase = 0
     /\ first_block.out_channels >= DefaultRoundBase
     /\ first_block.bottleneck_channels % DefaultRoundBase = 0
     /\ first_block.bottleneck_channels >= DefaultRoundBase
     /\ first_block.sub_layers >= 1) =>
        /\ ret = SuperVoVKXLX_str(first_block)
        /\ Attrs(Decoded(ret)[1]) = Attrs(first_block)

\* structure_scale(1.0) has run on an aligned block with distinct widths
C6_Witness ==
    /\ op = "structure_scale" /\ arg = <<<<1, 1>>, None, None>>
    /\ first_block.out_channels = 16 /\ first_block.bottleneck_channels = 8
    /\ first_block.sub_layers = 3

\* C7: split and structure_scale leave every attribute of the input node
\* unchanged, and the code structure_scale returns carries the input's
\* in_channels and stride.
C7_TransformsArePure ==
    /\ op \in {"split", "structure_scale"} => the_block = first_block
    /\ op = "structure_scale" =>
        /\ Decoded(ret)[1].in_channels = first_block.in_channels
        /\ Decoded(ret)[1].stride = first_block.stride

\* a split that returns two blocks, and a scale by 3/2, have run
C7_Witness ==
    \/ /\ op = "split" /\ Len(Decoded(ret)) = 2 /\ first_block.stride = 2
    \/ /\ op = "structure_scale" /\ arg[1] = <<3, 2>> /\ first_block.stride = 2

(***************************************************************************)
(* Properties of the search-space generator.                               *)
(***************************************************************************)
\* type name and numeric fields of a candidate code
CandidateFields(code) ==
    LET lp == Find(code, "(")
    IN  [type |-> Slice(code, 0, lp),
         args |-> LeafArgs(Slice(code, lp + 1, get_right_parentheses_index(code))).args]

\* the block gen_search_space was asked to replace
TargetBlock == block_list[arg[1] + 1]

\* how often code occurs in list
Occurrences(list, code) == Cardinality({i \in 1..Len(list) : list[i] = code})

\* C8: gen_search_space returns one candidate list per type of the family (a
\* single list for a SuperConvKXBNRELU target), every returned list holds at
\* least one candidate, and no non-emptiness assertion fails.
C8_CandidateListsNonEmpty ==
    op = "gen_search_space" =>
        LET family == seach_space_block_type_list_list[1]
            lists == student_blocks_list_list
        IN  /\ err = "none"
            /\ IsSuperConvKXBNRELU(TargetBlock) => Len(lists) = 1
            /\ ~IsSuperConvKXBNRELU(TargetBlock) =>
                /\ Len(lists) = Len(family)
                /\ \A k \in 1..Len(family) :
                    \E i \in 1..Len(lists[k]) : CandidateFields(lists[k][i]).type = family[k]
            /\ \A k \in 1..Len(lists) : Len(lists[k]) >= 1

\* the generator has run on the composite block and on the kernel-1 head
C8_Witness ==
    /\ op = "gen_search_space" /\ err = "none"
    /\ ~IsSuperConvKXBNRELU(TargetBlock)
    /\ TargetBlock.sub_layers = 1
    /\ Len(student_blocks_list_list) = 3

\* C9: for a non-leaf target every candidate has sub_layers >= 1 and
\* out_channels and bottleneck_channels at least the declared minimum channel
\* width of the candidate's block type.
C9_NoZeroSizedCandidates ==
    (op = "gen_search_space" /\ ~IsSuperConvKXBNRELU(TargetBlock)) =>
        \A k \in 1..Len(student_blocks_list_list) :
            \A i \in 1..Len(student_blocks_list_list[k]) :
                LET c == CandidateFields(student_blocks_list_list[k][i])
                IN  /\ c.args[5] >= 1
                    /\ c.args[2] >= block_type_min_channels_base_dict(c.type)
                    /\ c.args[4] >= block_type_min_channels_base_dict(c.type)

\* the target has 1 sub-layer, so the sub-layer candidates include 0, and the
\* smallest surviving candidate is in the first list
C9_Witness ==
    /\ op = "gen_search_space" /\ ~IsSuperConvKXBNRELU(TargetBlock)
    /\ TargetBlock.sub_layers = 1
    /\ 0 \in {get_select_student_sublayers_list(1)[i] : i \in 1..4}
    /\ \E i \in 1..Len(student_blocks_list_list[1]) :
        CandidateFields(student_blocks_list_list[1][i]).args = <<8, 8, TargetBlock.stride, 8, 1>>

\* C10: every returned candidate list holds each code at most once, and the
\* code of every (out_channels, sub_layers, bottleneck_channels) the ratio
\* and delta tuples round to is in the first list exactly once.
C10_Deduplicated ==
    op = "gen_search_space" =>
        /\ \A k \in 1..Len(student_blocks_list_list) :
            \A i \in 1..Len(student_blocks_list_list[k]) :
                Occurrences(student_blocks_list_list[k], student_blocks_list_list[k][i]) = 1
        /\ ~IsSuperConvKXBNRELU(TargetBlock) =>
            LET outs == get_select_student_channels_list(TargetBlock.out_channels)
                btls == get_select_student_channels_list(TargetBlock.bottleneck_channels)
                subs == get_select_student_sublayers_list(TargetBlock.sub_layers)
            IN  \A o \in 1..Len(outs), b \in 1..Len(btls), l \in 1..Len(subs) :
                    subs[l] >= 1 =>
                        Occurrences(student_blocks_list_list[1],
                            Token(seach_space_block_type_list_list[1][1],
                                  <<TargetBlock.in_channels, outs[o], TargetBlock.stride,
                                    btls[b], subs[l]>>)) = 1

\* the target's widths are 8, so five of the nine ratios round to the same
\* width 8, and the code with both widths 8 is in the first list
C10_Witness ==
    /\ op = "gen_search_space" /\ ~IsSuperConvKXBNRELU(TargetBlock)
    /\ TargetBlock.out_channels = 8 /\ TargetBlock.bottleneck_channels = 8
    /\ smart_round(Max8(<<4 * 8, 5>>), 8) = smart_round(Max8(<<2 * 8, 5>>), 8)
    /\ \E i \in 1..Len(student_blocks_list_list[1]) :
        CandidateFields(student_blocks_list_list[1][i]).args = <<8, 8, TargetBlock.stride, 8, 2>>

\* the key the candidates are said to be ordered by: out_channels, then
\* bottleneck_channels, then sub_layers (a SuperConvKXBNRELU code has only
\* the first)
CandidateKey(code) ==
    LET a == CandidateFields(code).args
    IN  IF Len(a) = 5 THEN <<a[2], a[4], a[5]>> ELSE <<a[2], 0, 0>>

\* x comes no later than y in descending lexicographic order
KeyGeq(x, y) ==
    \/ x[1] > y[1]
    \/ x[1] = y[1] /\ x[2] > y[2]
    \/ x[1] = y[1] /\ x[2] = y[2] /\ x[3] >= y[3]

\* C11 (as claimed): each candidate list gen_search_space returns is in
\* descending order of out_channels, ties broken by descending
\* bottleneck_channels, then by descending sub_layers.
C11_DescendingOrder ==
    op = "gen_search_space" =>
        \A k \in 1..Len(student_blocks_list_list) :
            \A i \in 1..(Len(student_blocks_list_list[k]) - 1) :
                KeyGeq(CandidateKey(student_blocks_list_list[k][i]),
                       CandidateKey(student_blocks_list_list[k][i + 1]))

\* C12: for a SuperConvKXBNRELU target with kernel_size 1 gen_search_space
\* returns exactly one list with exactly one candidate, of the target's type,
\* in_channels, stride and out_channels.
C12_HeadWidthFixed ==
    (/\ op = "gen_search_space"
     /\ IsSuperConvKXBNRELU(TargetBlock) /\ TargetBlock.kernel_size = 1) =>
        /\ err = "none"
        /\ Len(student_blocks_list_list) = 1
        /\ Len(student_blocks_list_list[1]) = 1
        /\ CandidateFields(student_blocks_list_list[1][1]) =
               [type |-> TargetBlock.cls,
                args |-> <<TargetBlock.in_channels, TargetBlock.out_channels,
                           TargetBlock.stride, 1>>]

\* the generator has run on the kernel-1 head, whose width the ratio rule
\* would turn into several widths
C12_Witness ==
    /\ op = "gen_search_space" /\ err = "none"
    /\ IsSuperConvKXBNRELU(TargetBlock) /\ TargetBlock.kernel_size = 1
    /\ Len(get_select_student_channels_list(TargetBlock.out_channels)) > 1
    /\ Len(student_blocks_list_list[1]) = 1

\* the ratios of the channel rule, as rationals
ChannelRatios ==
    {<<5, 2>>, <<2, 1>>, <<3, 2>>, <<5, 4>>, <<1, 1>>, <<4, 5>>, <<2, 3>>, <<1, 2>>, <<2, 5>>}

\* v is round_to_base(max(8, r * c), 8) for the ratio r
IsChannelCandidate(v, c, r) ==
    IF r[1] * c < 8 * r[2] THEN IsRoundToBase(v, 8, 1, 8)
    ELSE IsRoundToBase(v, r[1] * c, r[2], 8)

\* the elements of a sequence
Range(seq) == {seq[i] : i \in 1..Len(seq)}

StrictlyDescending(seq) == \A i \in 1..(Len(seq) - 1) : seq[i] > seq[i + 1]

\* C13: get_select_student_channels_list(c) holds exactly the values
\* round_to_base(max(8, r * c), 8) of the nine ratios r, each once, in
\* strictly descending order, every one a multiple of 8 and at least 8; and
\* the candidates of gen_search_space for a non-leaf target pair every
\* out-channel value of the rule (on out_channels) with every bottleneck
\* value of the rule (on bottleneck_channels).
C13_ChannelCandidates ==
    /\ op = "get_select_student_channels_list" =>
        /\ \A i \in 1..Len(ret) :
            /\ ret[i] % 8 = 0 /\ ret[i] >= 8
            /\ \E r \in ChannelRatios : IsChannelCandidate(ret[i], arg[1], r)
        /\ \A r \in ChannelRatios :
            \E i \in 1..Len(ret) : IsChannelCandidate(ret[i], arg[1], r)
        /\ StrictlyDescending(ret)
    /\ (op = "gen_search_space" /\ ~IsSuperConvKXBNRELU(TargetBlock)) =>
        \A k \in 1..Len(student_blocks_list_list) :
            {<<CandidateFields(student_blocks_list_list[k][i]).args[2],
               CandidateFields(student_blocks_list_list[k][i]).args[4]>> :
                 i \in 1..Len(student_blocks_list_list[k])}
            = Range(get_select_student_channels_list(TargetBlock.out_channels))
              \X Range(get_select_student_channels_list(TargetBlock.bottleneck_channels))

\* the rule has run on 20, where 2.5 * 20 = 50 rounds to 48, 20 itself sits
\* half way between 16 and 24, and the two smallest ratios both give 8
C13_Witness ==
    /\ op = "get_select_student_channels_list"
    /\ arg = <<20>> /\ ret = <<48, 40, 32, 24, 16, 8>>

\* C14: get_select_student_sublayers_list(n) holds exactly the values
\* max(0, n + d) for d in -2..2, each once, in descending order; and every
\* candidate of gen_search_space for a non-leaf target with n sub_layers has
\* a sub-layer count between max(1, n - 2) and n + 2.
C14_SublayerCandidates ==
    /\ op = "get_select_student_sublayers_list" =>
        /\ Range(ret) = {Max(0, arg[1] + d) : d \in -2..2}
        /\ StrictlyDescending(ret)
    /\ (op = "gen_search_space" /\ ~IsSuperConvKXBNRELU(TargetBlock)) =>
        \A k \in 1..Len(student_blocks_list_list) :
            \A i \in 1..Len(student_blocks_list_list[k]) :
                LET l == CandidateFields(student_blocks_list_list[k][i]).args[5]
                IN  /\ l >= Max(1, TargetBlock.sub_layers - 2)
                    /\ l <= TargetBlock.sub_layers + 2

\* the deltas have been applied to 1, where two of them fall to the floor of 0
C14_Witness ==
    /\ op = "get_select_student_sublayers_list"
    /\ arg = <<1>> /\ ret = <<3, 2, 1, 0>>

(***************************************************************************)
(* Properties of decoding literals off the well-formed path, and of the    *)
(* canonical string.                                                       *)
(***************************************************************************)
\* number of "(" minus number of ")" among the first i characters of s
Balance(s, i) ==
    Cardinality({j \in 1..i : s[j] = "("}) - Cardinality({j \in 1..i : s[j] = ")"})

\* the position of the first ")" at which the nesting depth is back at zero
\* (empty when s has none)
MatchingCloses(s) ==
    {i \in 1..Len(s) :
        /\ s[i] = ")" /\ Balance(s, i) = 0
        /\ \A j \in 1..(i - 1) : s[j] = ")" => Balance(s, j) # 0}

\* the text between the first "(" of s and the given position
BodyUpTo(s, close) == SubSeq(s, Find(s, "(") + 2, close - 1)

\* C15 (as claimed): a decode that succeeds takes the text before `|` as
\* block_name and the text after it as the parameter list only if the body has
\* a `|` before any comma; otherwise the name is a fresh one and the whole
\* body is the parameter list; the remainder is the input after the matched
\* closing parenthesis.
C15_NamePrefixRule ==
    (op = "decode" /\ decodes = 1 /\ err = "none"
     /\ MatchingCloses(struct_str) # {}) =>
        LET close == CHOOSE i \in MatchingCloses(struct_str) : TRUE
            body == BodyUpTo(struct_str, close)
            bar == Find(body, "|")
            comma == Find(body, ",")
            named == bar >= 0 /\ (comma < 0 \/ bar < comma)
            params == LeafArgs(IF named THEN SliceFrom(body, bar + 1) ELSE body).args
        IN  /\ the_block.block_name =
                   IF named THEN Slice(body, 0, bar) ELSE UuidName(uuid_count)
            /\ Len(params) >= 5
            /\ SubSeq(params, 1, 5) =
                   <<the_block.in_channels, the_block.out_channels, the_block.stride,
                     the_block.bottleneck_channels, the_block.sub_layers>>
            /\ remainder = SubSeq(struct_str, close + 1, Len(struct_str))

\* C16 (as claimed): whenever the parameter list of a composite token has
\* fewer or more than five fields, or a field that is no number, decode
\* fails with an error and returns no node.
C16_InvalidParametersFail ==
    (op = "decode" /\ decodes = 1 /\ MatchingCloses(struct_str) # {}) =>
        LET close == CHOOSE i \in MatchingCloses(struct_str) : TRUE
            body == BodyUpTo(struct_str, close)
            bar == Find(body, "|")
            fields == StrSplit(IF bar >= 0 THEN SliceFrom(body, bar + 1) ELSE body, ",")
        IN  (Len(fields) # 5 \/ \E k \in 1..Len(fields) : ~ParseInt(fields[k]).ok) =>
                /\ err \in {"InvalidParameterError", "ValueError", "IndexError"}
                /\ the_block = NoBlock

C18_CanonicalCarriesName ==
    /\ (op = "decode" /\ decodes = 1 /\ err = "none") =>
        \E text \in {SuperVoVKXLX_str(the_block), SuperVoVKXLX_repr(the_block)} :
            text = Literal([name |-> the_block.cls], the_block.block_name,
                           <<the_block.in_channels, the_block.out_channels,
                             the_block.stride, the_block.bottleneck_channels,
                             the_block.sub_layers>>)
    /\ (op = "decode" /\ decodes = 2 /\ err = "none") =>
        the_block.block_name = first_block.block_name

(***************************************************************************)
(* Properties of the inner code a composite block synthesizes.             *)
(***************************************************************************)
\* the tokens of one conv group: the conv, then BN and RELU unless switched
\* off
ConvGroup(b) ==
    <<ConvKXName>> \o (IF ~b.no_BN THEN <<BNName>> ELSE <<>>)
                  \o (IF ~b.no_relu THEN <<RELUName>> ELSE <<>>)

\* position in a stage of the l-th conv token (the projection is number
\* osa_layers + 1)
ConvPos(b, l) == (l - 1) * Len(ConvGroup(b)) + 1

\* the token types of one stage: osa_layers kernel-conv groups, the
\* projection group, SE when asked for
StageTypes(b) ==
    [i \in 1..((b.osa_layers + 1) * Len(ConvGroup(b))) |->
        ConvGroup(b)[((i - 1) % Len(ConvGroup(b))) + 1]]
    \o (IF b.use_se THEN <<SEName>> ELSE <<>>)

\* C19: the inner code of a composite node is sub_layers stages; each is an
\* OSAResBlock when the residual link is on and an OSABlock otherwise, and
\* holds osa_layers ConvKX tokens of the node's kernel_size, then one ConvKX
\* of kernel 1 and stride 1 onto out_channels, with BN and RELU after each
\* conv and SE after the projection exactly as the flags say.
C19_ExpansionShape ==
    (op = "decode" /\ decodes = 1 /\ err = "none") =>
        LET b == the_block
        IN  /\ Len(b.block_list) = b.sub_layers
            /\ \A i \in 1..Len(b.block_list) :
                LET stage == b.block_list[i]
                IN  /\ stage.type = IF ~b.no_reslink THEN OSAResBlockName ELSE OSABlockName
                    /\ [k \in 1..Len(stage.inner) |-> stage.inner[k].type] = StageTypes(b)
                    /\ \A l \in 1..b.osa_layers :
                        /\ stage.inner[ConvPos(b, l)].args[2] = b.bottleneck_channels
                        /\ stage.inner[ConvPos(b, l)].args[3] = b.kernel_size
                    /\ SubSeq(stage.inner[ConvPos(b, b.osa_layers + 1)].args, 2, 4)
                           = <<b.out_channels, 1, 1>>

\* a K5L2 block of two stages has been built with SE on, and one without
\* the residual link
C19_Witness ==
    /\ op = "decode" /\ decodes = 1 /\ err = "none"
    /\ the_block.osa_layers = 2 /\ the_block.sub_layers = 2
    /\ (the_block.use_se \/ the_block.no_reslink)
    /\ Len(the_block.block_list) = 2

\* C20 (as claimed): in every stage the first kernel conv has the node's
\* stride and every later kernel conv of that stage has stride 1.
C20_StrideInEveryStage ==
    (op = "decode" /\ decodes = 1 /\ err = "none") =>
        \A i \in 1..Len(the_block.block_list) :
            \A l \in 1..the_block.osa_layers :
                the_block.block_list[i].inner[ConvPos(the_block, l)].args[4]
                    = IF l = 1 THEN the_block.stride ELSE 1

\* C20 (amended): the first kernel conv of the first stage has the node's
\* stride; every other kernel conv, in the first stage and in all later
\* stages, has stride 1.
C20_StrideInFirstStageOnly ==
    (op = "decode" /\ decodes = 1 /\ err = "none") =>
        \A i \in 1..Len(the_block.block_list) :
            \A l \in 1..the_block.osa_layers :
                the_block.block_list[i].inner[ConvPos(the_block, l)].args[4]
                    = IF i = 1 /\ l = 1 THEN the_block.stride ELSE 1

\* a stride-2 block with several stages of several kernel convs
C20_Witness ==
    /\ op = "decode" /\ decodes = 1 /\ err = "none"
    /\ the_block.stride = 2
    /\ the_block.sub_layers >= 2 /\ the_block.osa_layers >= 2
    /\ the_block.block_list[2].inner[1].args[4] = 1

\* the l-th conv token of stage i of block b (the projection is number
\* osa_layers + 1)
ConvArgs(b, i, l) == b.block_list[i].inner[ConvPos(b, l)].args

\* C21 (as claimed): the first kernel conv of a stage reads the running
\* last_channels, which starts at in_channels and is bottleneck_channels
\* after any repetition; every later kernel conv reads bottleneck_channels;
\* every kernel conv writes bottleneck_channels.
C21_InputIsRunningBottleneck ==
    (op = "decode" /\ decodes = 1 /\ err = "none") =>
        \A i \in 1..Len(the_block.block_list) :
            \A l \in 1..the_block.osa_layers :
                /\ ConvArgs(the_block, i, l)[1] =
                       IF i = 1 /\ l = 1 THEN the_block.in_channels
                       ELSE the_block.bottleneck_channels
                /\ ConvArgs(the_block, i, l)[2] = the_block.bottleneck_channels

\* C21 (amended): the first kernel conv of the first stage reads in_channels,
\* the first kernel conv of every later stage reads out_channels (what the
\* stage before it delivers); every later kernel conv of a stage reads
\* bottleneck_channels; every kernel conv writes bottleneck_channels.
C21_InputIsStageInput ==
    (op = "decode" /\ decodes = 1 /\ err = "none") =>
        \A i \in 1..Len(the_block.block_list) :
            \A l \in 1..the_block.osa_layers :
                /\ ConvArgs(the_block, i, l)[1] =
                       IF l > 1 THEN the_block.bottleneck_channels
                       ELSE IF i = 1 THEN the_block.in_channels
                       ELSE the_block.out_channels
                /\ ConvArgs(the_block, i, l)[2] = the_block.bottleneck_channels

\* a block of several stages and several kernel convs whose three widths
\* are not all the same
C21_Witness ==
    /\ op = "decode" /\ decodes = 1 /\ err = "none"
    /\ the_block.sub_layers >= 2 /\ the_block.osa_layers >= 2
    /\ the_block.out_channels # the_block.bottleneck_channels
    /\ the_block.in_channels # the_block.out_channels
    /\ ConvArgs(the_block, 2, 1)[1] = the_block.out_channels

\* C22 (as claimed): for every setting of the flags the projection that
\* closes a stage is ConvKX(osa_layers * bottleneck_channels, out_channels,
\* 1, 1).
C22_ProjectionWidth ==
    (op = "decode" /\ decodes = 1 /\ err = "none") =>
        \A i \in 1..Len(the_block.block_list) :
            ConvArgs(the_block, i, the_block.osa_layers + 1) =
                <<the_block.osa_layers * the_block.bottleneck_channels,
                  the_block.out_channels, 1, 1>>

\* C23 (as claimed): for sub_layers >= 1 and threshold >= 1 every block code
\* split returns has sub_layers >= 1, and the sub_layers of the returned
\* blocks add up to the parent's.
C23_SplitLeavesNoEmptyBlock ==
    (op = "split" /\ first_block.sub_layers >= 1 /\ arg[1] >= 1) =>
        LET b == Decoded(ret)
        IN  /\ \A i \in 1..Len(b) : b[i].sub_layers >= 1
            /\ (IF Len(b) = 2 THEN b[1].sub_layers + b[2].sub_layers ELSE b[1].sub_layers)
                   = first_block.sub_layers

(***************************************************************************)
(* Further properties of the search-space generator.                       *)
(***************************************************************************)
\* the five numeric fields of the target block
TargetFields ==
    <<TargetBlock.in_channels, TargetBlock.out_channels, TargetBlock.stride,
      TargetBlock.bottleneck_channels, TargetBlock.sub_layers>>

\* C25: for a non-leaf target whose out_channels and bottleneck_channels are
\* multiples of 8 and at least 8 and whose sub_layers >= 1, the list returned
\* for each family type holds the code of that type with exactly the
\* target's in_channels, out_channels, stride, bottleneck_channels and
\* sub_layers.
C25_IdentityIsCandidate ==
    (/\ op = "gen_search_space" /\ ~IsSuperConvKXBNRELU(TargetBlock)
     /\ TargetBlock.out_channels % 8 = 0 /\ TargetBlock.out_channels >= 8
     /\ TargetBlock.bottleneck_channels % 8 = 0 /\ TargetBlock.bottleneck_channels >= 8
     /\ TargetBlock.sub_layers >= 1) =>
        LET family == seach_space_block_type_list_list[1]
        IN  /\ err = "none"
            /\ Len(student_blocks_list_list) = Len(family)
            /\ \A k \in 1..Len(family) :
                Occurrences(student_blocks_list_list[k], Token(family[k], TargetFields)) = 1

\* the generator has run on a stride-2 target of 2 sub-layers whose two
\* widths differ
C25_Witness ==
    /\ op = "gen_search_space" /\ ~IsSuperConvKXBNRELU(TargetBlock)
    /\ TargetFields = <<8, 16, 2, 8, 2>>
    /\ Len(student_blocks_list_list) = 3

\* the codes of a list with the type name taken off
WithoutTypeName(list) ==
    {CandidateFields(list[i]).args : i \in 1..Len(list)}

\* C26 (as claimed): every candidate carries the target's in_channels and
\* stride; for a non-leaf target there is one list per family type, list k
\* holds codes of family type k only, and the lists are the same up to the
\* type name; for a SuperConvKXBNRELU target the type is the target's own and
\* the last field is 1.
C26_CandidatesKeepInterface ==
    op = "gen_search_space" =>
        LET family == seach_space_block_type_list_list[1]
            lists == student_blocks_list_list
        IN  /\ \A k \in 1..Len(lists) : \A i \in 1..Len(lists[k]) :
                /\ CandidateFields(lists[k][i]).args[1] = TargetBlock.in_channels
                /\ CandidateFields(lists[k][i]).args[3] = TargetBlock.stride
            /\ ~IsSuperConvKXBNRELU(TargetBlock) =>
                /\ Len(lists) = Len(family)
                /\ \A k \in 1..Len(lists) :
                    /\ \A i \in 1..Len(lists[k]) :
                        CandidateFields(lists[k][i]).type = family[k]
                    /\ Len(lists[k]) = Len(lists[1])
                    /\ WithoutTypeName(lists[k]) = WithoutTypeName(lists[1])
            /\ IsSuperConvKXBNRELU(TargetBlock) =>
                \A k \in 1..Len(lists) : \A i \in 1..Len(lists[k]) :
                    /\ CandidateFields(lists[k][i]).type = TargetBlock.cls
                    /\ CandidateFields(lists[k][i]).args[4] = 1

(***************************************************************************)
(* Repeated split.                                                         *)
(***************************************************************************)
\* split changes nothing on the current code, and every block of it has
\* sub_layers below the threshold
SplitStable ==
    LET r == create_netblock_list_from_str(struct_str, kwargs, uuid_count)
    IN  /\ r.err = "none"
        /\ SplitAll(r.block_list, arg[1]) = struct_str
        /\ \A i \in 1..Len(r.block_list) : r.block_list[i].sub_layers < arg[1]

SavePcs ==
    {"save_remove_old_backup", "save_rename", "save_open", "save_write",
     "save_remove_backup"}

\* a step of the running process, as opposed to its interruption
ProcessStep == pc # "stopped" /\ pc' # "stopped"

\* the old and the new state of the file being saved
OldOrNew == {entry_checkpoint, Complete(state_dict)}

\* C27: when save_checkpoint is called with a complete checkpoint file present,
\* after each of its file-system steps the checkpoint file or the .backup file
\* holds a complete state, the old or the new one; and when the call returns the
\* checkpoint file holds the new state and there is no .backup file
C27_CheckpointSaveCrashSafe ==
    [][(ProcessStep /\ pc \in SavePcs) =>
         /\ entry_checkpoint.kind = "complete" =>
                \/ files'[checkpoint_filename] \in OldOrNew
                \/ files'[backup_filename(checkpoint_filename)] \in OldOrNew
         /\ pc = "save_remove_backup" =>
                /\ files'[checkpoint_filename] = Complete(state_dict)
                /\ files'[backup_filename(checkpoint_filename)] = Absent]_vars

\* the new checkpoint is being written over a complete old one, which the
\* backup holds
C27_Witness ==
    /\ pc = "save_write"
    /\ entry_checkpoint.kind = "complete"
    /\ files[checkpoint_filename] = Partial
    /\ files[backup_filename(checkpoint_filename)] = entry_checkpoint
    /\ entry_checkpoint # Complete(state_dict)

\* the step that ends an epoch of train_all_epochs
EpochEnds == ProcessStep /\ pc \in {"train", "save_remove_backup"} /\ epoch' = epoch + 1

\* C28: in every epoch best_acc1 becomes the maximum of its old value and the
\* epoch's acc1 (so it never decreases and is the maximum of its initial value
\* and all acc1 seen); best_acc1_at_epoch changes only if acc1 is strictly above
\* the old best, and then to that epoch; the best-params file is written in
\* exactly those epochs, so once written by this process its stored epoch is
\* best_acc1_at_epoch; the same for acc5, best_acc5 and best_acc5_at_epoch
C28_BestAccuracyTracking ==
    [][/\ (ProcessStep /\ pc = "train") =>
            /\ training_status_info'.best_acc1 = Max(training_status_info.best_acc1, acc1')
            /\ training_status_info'.best_acc1 >= training_status_info.best_acc1
            /\ training_status_info'.best_acc1_at_epoch =
                    IF acc1' > training_status_info.best_acc1 THEN epoch
                    ELSE training_status_info.best_acc1_at_epoch
            /\ training_status_info'.best_acc5 = Max(training_status_info.best_acc5, acc5')
            /\ training_status_info'.best_acc5 >= training_status_info.best_acc5
            /\ training_status_info'.best_acc5_at_epoch =
                    IF acc5' > training_status_info.best_acc5 THEN epoch
                    ELSE training_status_info.best_acc5_at_epoch
            /\ is_best_acc1' = (acc1' > training_status_info.best_acc1)
       /\ (ProcessStep /\ pc # "train") => training_status_info' = training_status_info
       /\ EpochEnds =>
            /\ is_best_acc1' = (best_written' = epoch)
            /\ best_written' >= 0 =>
                    /\ files'[best_pth_fn].kind = "complete"
                    /\ files'[best_pth_fn].obj.epoch = training_status_info'.best_acc1_at_epoch
                    /\ files'[best_pth_fn].obj.epoch = best_written']_vars

\* training has run through: epoch 0 was a best and was written to the
\* best-params file, the epoch after it was not
C28_Witness ==
    /\ pc = "mark_done"
    /\ ~opt.evaluate_only
    /\ best_written = 0
    /\ training_status_info.best_acc1_at_epoch = 0
    /\ acc1 < training_status_info.best_acc1
    /\ files[best_pth_fn].kind = "complete"
    /\ files[best_pth_fn].obj.epoch = 0

\* a start of main
MainStep == runs' = runs + 1

\* C29: once a latest-params checkpoint for epoch e has been completely saved,
\* a start of main with auto_resume set and resume unset resumes with
\* start_epoch >= e + 1; the done marker is written only when training or
\* evaluation has finished, and once it exists a start of main trains nothing
C29_AutoResumeKeepsProgress ==
    [][/\ (/\ MainStep
           /\ opt.auto_resume
           /\ opt.resume = ResumeNone
           /\ ~isfile(files, job_done_fn)
           /\ saved_epoch >= 0) =>
                /\ pc' # "stopped"
                /\ start_epoch' >= saved_epoch + 1
       /\ files'[job_done_fn] # files[job_done_fn] =>
                /\ pc = "mark_done"
                /\ opt.evaluate_only \/ epoch >= opt.epochs
       /\ isfile(files, job_done_fn) =>
                /\ pc = "stopped"
                /\ pc' = "stopped"
                /\ files' = files]_vars


====
